---- MODULE Spec2Model ----
(***************************************************************************)
(* SyncBuddy: location preprocessing, source/destination matching and the  *)
(* planning of synchronization jobs.                                       *)
(*                                                                         *)
(* Strings that denote paths are sequences of tokens: a token is either a  *)
(* name ("docs", "vault.crypt") or the separator "/".  pathlib.Path values *)
(* are sequences of parts: the names, preceded by "/" when the path is     *)
(* absolute.                                                               *)
(***************************************************************************)
EXTENDS Integers, Sequences, FiniteSets, TLC

\* ------------------------------------------------------------------ bounds
\* configured directories per location
MaxDirs == 2
\* settings by which the run departs from the default (plain, non-sensitive
\* source directories in per-file mode without sub-path lists, automatic
\* matching)
MaxOpts == 2

\* --------------------------------------------------------------- constants
\* Python's None, where a string, a path or a dict is optional
None == <<"None">>
SEP == "/"
CIPHERTEXT_ENDING == ".crypt"
ARCHIVE_ENDING == ".synchive"
\* config["gpg"]["tmp_dir"]
TmpDir == <<SEP, "tmp">>
\* the exceptions that end a run, NoError while none was raised
NoError == ""
InvalidEncryptionMode == "ValueError: Invalid encryption mode"
AbsolutePathIgnored == "ValueError: Absolute path ignored"
InvalidState == "ValueError: Invalid state"
UnsupportedEncryptionMode == "ValueError: Unsupported encryption mode"
FILE == "file"
DIRECTORY == "directory"

\* ------------------------------------------------------------ string model
\* str.startswith("/")
StartsWithSep(s) == Len(s) > 0 /\ s[1] = SEP

RECURSIVE RStripSep(_)
\* str.rstrip("/"): every trailing separator is removed
RStripSep(s) ==
  IF Len(s) > 0 /\ s[Len(s)] = SEP THEN RStripSep(SubSeq(s, 1, Len(s) - 1)) ELSE s

\* str.lower() on the suffixes that occur
Lower(s) == CASE s = ".CRYPT" -> ".crypt" [] OTHER -> s

\* the suffix of one path component (the part from its last dot on)
NameSuffix(n) ==
  CASE n = "vault.crypt" -> ".crypt"
    [] n \in {"docs.synchive.crypt", "vault.synchive.crypt", "notes.synchive.crypt",
              "a.synchive.crypt", "b.synchive.crypt"} -> ".crypt"
    [] n = "old.CRYPT" -> ".CRYPT"
    [] n = "notes.txt" -> ".txt"
    [] OTHER -> ""

\* Path.with_suffix(ARCHIVE_ENDING + CIPHERTEXT_ENDING) on one path component:
\* the suffix of the name, if it has one, is replaced
WithArchiveSuffix(n) ==
  CASE n = "docs" -> "docs.synchive.crypt"
    [] n = "vault.crypt" -> "vault.synchive.crypt"
    [] n = "notes.txt" -> "notes.synchive.crypt"
    [] n = "a" -> "a.synchive.crypt"
    [] n = "b" -> "b.synchive.crypt"

\* str.endswith("/")
EndsWithSep(s) == Len(s) > 0 /\ s[Len(s)] = SEP

\* -------------------------------------------------------------- pathlib.Path
IsNamePart(t) == t # SEP

\* Path(s): the parts of the path a string denotes
PathOf(s) ==
  (IF StartsWithSep(s) THEN <<SEP>> ELSE <<>>) \o SelectSeq(s, IsNamePart)

\* Path(a) / s: an absolute right operand replaces the left one
PathJoin(p, s) == IF StartsWithSep(s) THEN PathOf(s) ELSE p \o PathOf(s)

\* Path.parent: "." and "/" are their own parent
PathParent(p) ==
  IF Len(p) = 0 \/ p = <<SEP>> THEN p ELSE SubSeq(p, 1, Len(p) - 1)

\* Path.suffix
PathSuffix(p) ==
  IF Len(p) = 0 \/ p[Len(p)] = SEP THEN "" ELSE NameSuffix(p[Len(p)])

\* str(Path) as a token string again
RECURSIVE PathStr(_)
PathStr(p) ==
  IF Len(p) = 0 THEN <<>>
  ELSE IF Len(p) = 1 THEN p
  ELSE IF p[1] = SEP THEN <<SEP>> \o PathStr(Tail(p))
  ELSE <<p[1], SEP>> \o PathStr(Tail(p))

IsPrefix(p, q) == Len(p) <= Len(q) /\ SubSeq(q, 1, Len(p)) = p

\* -------------------------------------------------------------------- MyPath
MyPath(sys_root, pth_root, sub_pth, ssh_info) ==
  [sys_root |-> sys_root, pth_root |-> pth_root, sub_pth |-> sub_pth,
   abs_path |-> PathJoin(PathJoin(PathOf(sys_root), pth_root), sub_pth),
   ssh_info |-> ssh_info]

has_suffix(path, suffix) == Lower(PathSuffix(path.abs_path)) = Lower(suffix)

\* MyPath.exists: the file system is part of the environment; a path exists
\* unless one of its components is a name the file system does not hold
MissingNames == {"gone"}
exists(path) == \A i \in 1..Len(path.abs_path) : path.abs_path[i] \notin MissingNames

\* ---------------------------------------------------------- EncryptionMode
\* EncryptionMode(value): the enumeration has the members FILE and DIRECTORY;
\* any other value raises ValueError
EncryptionModes == {FILE, DIRECTORY}
EncryptionModeRaises(value) == value \notin EncryptionModes

\* --------------------------------------------------------- DirectoryWrapper
\* a constructor that accepts an absolute pth_dir
DirectoryWrapperRaises_never(pth_dir) == FALSE

\* DirectoryWrapper.__init__ raises ValueError for an absolute pth_dir
DirectoryWrapperRaises(pth_dir) == StartsWithSep(pth_dir)

DirectoryWrapper(sys_root, pth_dir, ssh_info, sensitive, encryption_mode) ==
  [ssh_info |-> ssh_info,
   root_path |-> MyPath(sys_root, RStripSep(pth_dir), <<>>, ssh_info),
   sensitive_folders |-> <<>>,
   exclude_folders |-> <<>>,
   is_sensitive |-> sensitive,
   encryption_mode |-> encryption_mode]

\* are_syncable that accepts every destination
are_syncable_any(s, d) == TRUE

are_syncable(s, d) == s.is_sensitive = d.is_sensitive

get_dir_path(dir) == dir.root_path

RECURSIVE process_paths(_, _, _)
\* DirectoryWrapper._process_paths: None entries are skipped, every other
\* entry is appended to the target list as a MyPath below the directory
process_paths(dir, subdirs, target_list) ==
  IF subdirs = <<>> THEN target_list
  ELSE IF Head(subdirs) = None THEN process_paths(dir, Tail(subdirs), target_list)
  ELSE process_paths(dir, Tail(subdirs),
         Append(target_list,
                MyPath(dir.root_path.sys_root, dir.root_path.pth_root,
                       Head(subdirs), dir.ssh_info)))

\* process_sensitive_folders that does not look at is_sensitive
process_sensitive_folders_always(dir, sens_folders) ==
  [dir EXCEPT !.sensitive_folders =
                 process_paths(dir, sens_folders, dir.sensitive_folders)]

\* process_sensitive_folders that registers the folders as excludes as well
process_sensitive_folders_excluding(dir, sens_folders) ==
  IF dir.is_sensitive THEN dir
  ELSE [dir EXCEPT !.sensitive_folders =
                      process_paths(dir, sens_folders, dir.sensitive_folders),
                   !.exclude_folders =
                      process_paths(dir, sens_folders, dir.exclude_folders)]

process_sensitive_folders(dir, sens_folders) ==
  IF dir.is_sensitive THEN dir
  ELSE [dir EXCEPT !.sensitive_folders =
                      process_paths(dir, sens_folders, dir.sensitive_folders)]

process_exclude_paths(dir, exclude_subdirs) ==
  [dir EXCEPT !.exclude_folders =
                 process_paths(dir, exclude_subdirs, dir.exclude_folders)]

\* get_exclude_dirs that never adds the sensitive folders
get_exclude_dirs_never_merges(dir, merge_with_sensitive_dirs) ==
  [i \in 1..Len(dir.exclude_folders) |-> dir.exclude_folders[i].sub_pth]

\* get_exclude_dirs that adds the sensitive folders whatever the flag
get_exclude_dirs_always_merges(dir, merge_with_sensitive_dirs) ==
  LET sources == dir.exclude_folders \o dir.sensitive_folders
  IN  [i \in 1..Len(sources) |-> sources[i].sub_pth]

\* DirectoryWrapper.get_exclude_dirs: the sub_pth strings of the exclude
\* folders, followed by those of the sensitive folders when merging
get_exclude_dirs(dir, merge_with_sensitive_dirs) ==
  LET sources == IF merge_with_sensitive_dirs
                 THEN dir.exclude_folders \o dir.sensitive_folders
                 ELSE dir.exclude_folders
  IN  [i \in 1..Len(sources) |-> sources[i].sub_pth]

\* ------------------------------------------------------ preprocess_location
RECURSIVE preprocess_dirs_any_role(_, _, _)
\* the loop of preprocess_location that skips a missing directory whatever
\* the location's role
preprocess_dirs_any_role(location, i, acc) ==
  IF i > Len(location.dirs) THEN [error |-> NoError, processed_dirs |-> acc]
  ELSE
    LET loc_to_sync == location.dirs[i]
    IN  IF EncryptionModeRaises(loc_to_sync.encryption_mode)
        THEN [error |-> InvalidEncryptionMode, processed_dirs |-> acc]
        ELSE IF DirectoryWrapperRaises(loc_to_sync.path)
        THEN [error |-> AbsolutePathIgnored, processed_dirs |-> acc]
        ELSE
          LET loc == DirectoryWrapper(location.root_dir, loc_to_sync.path,
                                      location.ssh, loc_to_sync.sensitive,
                                      loc_to_sync.encryption_mode)
              withExcl == process_exclude_paths(loc, loc_to_sync.exclude_folders)
              withSens == process_sensitive_folders(withExcl,
                                                    loc_to_sync.sensitive_folders)
          IN  IF ~exists(get_dir_path(loc))
              THEN preprocess_dirs_any_role(location, i + 1, acc)
              ELSE IF location.type = "src"
                   THEN preprocess_dirs_any_role(location, i + 1,
                                                 Append(acc, withSens))
                   ELSE preprocess_dirs_any_role(location, i + 1, Append(acc, loc))

RECURSIVE preprocess_dirs(_, _, _)
\* the loop of preprocess_location over location["dirs"], from entry i on;
\* acc is location["processed_dirs"] so far
preprocess_dirs(location, i, acc) ==
  IF i > Len(location.dirs) THEN [error |-> NoError, processed_dirs |-> acc]
  ELSE
    LET loc_to_sync == location.dirs[i]
    IN  IF EncryptionModeRaises(loc_to_sync.encryption_mode)
        THEN [error |-> InvalidEncryptionMode, processed_dirs |-> acc]
        ELSE IF DirectoryWrapperRaises(loc_to_sync.path)
        THEN [error |-> AbsolutePathIgnored, processed_dirs |-> acc]
        ELSE
          LET loc == DirectoryWrapper(location.root_dir, loc_to_sync.path,
                                      location.ssh, loc_to_sync.sensitive,
                                      loc_to_sync.encryption_mode)
              withExcl == process_exclude_paths(loc, loc_to_sync.exclude_folders)
              withSens == process_sensitive_folders(withExcl,
                                                    loc_to_sync.sensitive_folders)
          IN  IF location.type = "src" /\ ~exists(get_dir_path(loc))
              THEN preprocess_dirs(location, i + 1, acc)
              ELSE IF location.type = "src"
                   THEN preprocess_dirs(location, i + 1, Append(acc, withSens))
                   ELSE preprocess_dirs(location, i + 1, Append(acc, loc))

preprocess_location(location) == preprocess_dirs(location, 1, <<>>)

\* ----------------------------------------------------------------- matching
Min(a, b) == IF a < b THEN a ELSE b

RECURSIVE check_matching_from_zip(_, _, _)
\* check_matching_locations that stops at the shorter list, as zip does
check_matching_from_zip(src_paths, dst_paths, i) ==
  IF i > Len(src_paths) \/ i > Len(dst_paths) THEN TRUE
  ELSE IF src_paths[i].is_sensitive # dst_paths[i].is_sensitive THEN FALSE
  ELSE check_matching_from_zip(src_paths, dst_paths, i + 1)

RECURSIVE check_matching_from(_, _, _)
\* the loop of check_matching_locations over the sources, from index i on
check_matching_from(src_paths, dst_paths, i) ==
  IF i > Len(src_paths) THEN TRUE
  ELSE IF i > Len(dst_paths) THEN FALSE
  ELSE IF src_paths[i].is_sensitive # dst_paths[i].is_sensitive THEN FALSE
  ELSE check_matching_from(src_paths, dst_paths, i + 1)

check_matching_locations(src_paths, dst_paths) ==
  check_matching_from(src_paths, dst_paths, 1)

RECURSIVE match_locations_from(_, _, _)
\* the loop of match_locations over the sources, from index i on: every
\* outcome the operator's selections can produce, as the pair of lists
\* (ordered_src, ordered_dst)
match_locations_from(src_dirs, dst_dirs, i) ==
  IF i > Len(src_dirs) THEN {[ordered_src |-> <<>>, ordered_dst |-> <<>>]}
  ELSE
    LET current_src == src_dirs[i]
        dst_candidates == SelectSeq(dst_dirs, LAMBDA d : are_syncable(current_src, d))
        rest == match_locations_from(src_dirs, dst_dirs, i + 1)
    IN  IF dst_candidates = <<>> THEN rest
        ELSE {[ordered_src |-> <<current_src>> \o r.ordered_src,
               ordered_dst |-> <<dst_candidates[k]>> \o r.ordered_dst] :
                k \in 1..Len(dst_candidates), r \in rest}

match_locations(src_dirs, dst_dirs) == match_locations_from(src_dirs, dst_dirs, 1)

\* ----------------------------------------------------------- check_security
\* check_security that decrypts sensitive data whatever the destination
check_security_decrypts_always(src_dir, dst_trusted) ==
  LET src_path == get_dir_path(src_dir)
      encrypt == src_dir.is_sensitive /\ ~dst_trusted
                   /\ ~has_suffix(src_path, CIPHERTEXT_ENDING)
      decrypt == src_dir.is_sensitive
  IN  [encrypt |-> encrypt, decrypt |-> decrypt,
       error |-> IF encrypt /\ decrypt THEN InvalidState ELSE NoError]

\* check_security that encrypts a source that is ciphertext already
check_security_ignores_suffix(src_dir, dst_trusted) ==
  LET encrypt == src_dir.is_sensitive /\ ~dst_trusted
      decrypt == src_dir.is_sensitive /\ dst_trusted
  IN  [encrypt |-> encrypt, decrypt |-> decrypt,
       error |-> IF encrypt /\ decrypt THEN InvalidState ELSE NoError]

check_security(src_dir, dst_trusted) ==
  LET src_path == get_dir_path(src_dir)
      encrypt == src_dir.is_sensitive /\ ~dst_trusted
                   /\ ~has_suffix(src_path, CIPHERTEXT_ENDING)
      decrypt == src_dir.is_sensitive /\ dst_trusted
  IN  [encrypt |-> encrypt, decrypt |-> decrypt,
       error |-> IF encrypt /\ decrypt THEN InvalidState ELSE NoError]

\* ---------------------------------------------------------- build_sync_jobs
SyncJob(src_path, dst_path, encrypt, decrypt, excludes, ssh, encryption_mode) ==
  [src |-> src_path, dst |-> dst_path, encrypt |-> encrypt, decrypt |-> decrypt,
   excludes |-> excludes, ssh |-> ssh, encryption_mode |-> encryption_mode]

\* dst_ssh or src_ssh
SshOr(dst_ssh, src_ssh) == IF dst_ssh # None THEN dst_ssh ELSE src_ssh

\* split_destination that takes the sub-path itself in either mode
split_destination_never_parent(src_dir, dst_dir, sens_dir) ==
  LET dst_base_path == get_dir_path(dst_dir)
  IN  MyPath(dst_base_path.sys_root, dst_base_path.pth_root,
             PathStr(PathOf(sens_dir.sub_pth)), dst_dir.ssh_info)

\* the destination of the job of one sensitive folder
split_destination(src_dir, dst_dir, sens_dir) ==
  LET dst_base_path == get_dir_path(dst_dir)
      dst_rel_parent == IF src_dir.encryption_mode = FILE
                        THEN PathOf(sens_dir.sub_pth)
                        ELSE PathParent(PathOf(sens_dir.sub_pth))
  IN  MyPath(dst_base_path.sys_root, dst_base_path.pth_root,
             PathStr(dst_rel_parent), dst_dir.ssh_info)

\* the loop over the sensitive folders that returns after the first one
split_jobs_first_only(src_dir, dst_dir, k) ==
  IF k > Len(src_dir.sensitive_folders) THEN [error |-> NoError, jobs |-> <<>>]
  ELSE IF src_dir.encryption_mode \notin {FILE, DIRECTORY}
  THEN [error |-> UnsupportedEncryptionMode, jobs |-> <<>>]
  ELSE
    LET sens_dir == src_dir.sensitive_folders[k]
    IN  [error |-> NoError,
         jobs |-> <<SyncJob(sens_dir, split_destination(src_dir, dst_dir, sens_dir),
                            TRUE, FALSE, <<>>, dst_dir.ssh_info,
                            src_dir.encryption_mode)>>]

RECURSIVE split_jobs_with_excludes(_, _, _)
\* the loop over the sensitive folders that hands each job the directory's
\* exclude list
split_jobs_with_excludes(src_dir, dst_dir, k) ==
  IF k > Len(src_dir.sensitive_folders) THEN [error |-> NoError, jobs |-> <<>>]
  ELSE IF src_dir.encryption_mode \notin {FILE, DIRECTORY}
  THEN [error |-> UnsupportedEncryptionMode, jobs |-> <<>>]
  ELSE
    LET sens_dir == src_dir.sensitive_folders[k]
        job == SyncJob(sens_dir, split_destination(src_dir, dst_dir, sens_dir),
                       TRUE, FALSE, get_exclude_dirs(src_dir, FALSE),
                       dst_dir.ssh_info, src_dir.encryption_mode)
        rest == split_jobs_with_excludes(src_dir, dst_dir, k + 1)
    IN  [error |-> rest.error, jobs |-> <<job>> \o rest.jobs]

RECURSIVE split_jobs(_, _, _)
\* the loop over src_dir.sensitive_folders, from index k on
split_jobs(src_dir, dst_dir, k) ==
  IF k > Len(src_dir.sensitive_folders) THEN [error |-> NoError, jobs |-> <<>>]
  ELSE IF src_dir.encryption_mode \notin {FILE, DIRECTORY}
  THEN [error |-> UnsupportedEncryptionMode, jobs |-> <<>>]
  ELSE
    LET sens_dir == src_dir.sensitive_folders[k]
        job == SyncJob(sens_dir, split_destination(src_dir, dst_dir, sens_dir),
                       TRUE, FALSE, <<>>, dst_dir.ssh_info,
                       src_dir.encryption_mode)
        rest == split_jobs(src_dir, dst_dir, k + 1)
    IN  [error |-> rest.error, jobs |-> <<job>> \o rest.jobs]

\* the jobs of one matched pair: the primary job, then the split jobs
pair_jobs(src_dir, dst_dir, dst_trusted) ==
  LET sens_dirs_exist == ~dst_trusted /\ Len(src_dir.sensitive_folders) > 0
      sec == check_security(src_dir, dst_trusted)
      primary == SyncJob(get_dir_path(src_dir), get_dir_path(dst_dir),
                         sec.encrypt, sec.decrypt,
                         get_exclude_dirs(src_dir, sens_dirs_exist),
                         SshOr(dst_dir.ssh_info, src_dir.ssh_info),
                         src_dir.encryption_mode)
      split == IF sens_dirs_exist THEN split_jobs(src_dir, dst_dir, 1)
               ELSE [error |-> NoError, jobs |-> <<>>]
  IN  IF sec.error # NoError THEN [error |-> sec.error, jobs |-> <<>>]
      ELSE [error |-> split.error, jobs |-> <<primary>> \o split.jobs]

RECURSIVE build_from_prepending(_, _, _, _)
\* the loop over the pairs that puts each pair's jobs in front of the plan
build_from_prepending(src_dirs, dst_dirs, dst_trusted, i) ==
  IF i > Min(Len(src_dirs), Len(dst_dirs)) THEN [error |-> NoError, jobs |-> <<>>]
  ELSE
    LET here == pair_jobs(src_dirs[i], dst_dirs[i], dst_trusted)
    IN  IF here.error # NoError THEN [error |-> here.error, jobs |-> <<>>]
        ELSE LET rest == build_from_prepending(src_dirs, dst_dirs, dst_trusted, i + 1)
             IN  [error |-> rest.error,
                  jobs |-> IF rest.error # NoError THEN <<>>
                           ELSE rest.jobs \o here.jobs]

RECURSIVE build_from(_, _, _, _)
\* the loop over zip(src processed_dirs, dst processed_dirs), from pair i on
build_from(src_dirs, dst_dirs, dst_trusted, i) ==
  IF i > Min(Len(src_dirs), Len(dst_dirs)) THEN [error |-> NoError, jobs |-> <<>>]
  ELSE
    LET here == pair_jobs(src_dirs[i], dst_dirs[i], dst_trusted)
    IN  IF here.error # NoError THEN [error |-> here.error, jobs |-> <<>>]
        ELSE LET rest == build_from(src_dirs, dst_dirs, dst_trusted, i + 1)
             IN  [error |-> rest.error,
                  jobs |-> IF rest.error # NoError THEN <<>>
                           ELSE here.jobs \o rest.jobs]

build_sync_jobs(src_location, dst_location) ==
  build_from(src_location.processed_dirs, dst_location.processed_dirs,
             dst_location.trusted, 1)

\* ------------------------------------------------------------ encrypt_srcdir
\* what the encryption collaborator meets: nothing, a source that is no
\* directory, a failing archiver, a cipher failing on the archive or on a file
EncryptionOutcomes == {"ok", "missing_dir", "archiver_failed", "cipher_failed"}

\* encrypt_srcdir: the path of the encrypted data, None on failure.  In
\* per-file mode the result of encrypt_file is not looked at and the output
\* directory is returned whatever the cipher did.
encrypt_srcdir(job, outcome) ==
  LET input_dir == job.src.abs_path
      output_dir == PathOf(TmpDir) \o Tail(input_dir)
  IN  IF outcome = "missing_dir" THEN None
      ELSE IF job.encryption_mode = DIRECTORY
      THEN IF outcome \in {"archiver_failed", "cipher_failed"} THEN None
           ELSE SubSeq(output_dir, 1, Len(output_dir) - 1)
                  \o <<WithArchiveSuffix(output_dir[Len(output_dir)])>>
      ELSE IF job.encryption_mode = FILE THEN output_dir
      ELSE None

\* -------------------------------------------------------- execute_sync_jobs
\* one call the executor makes to the outside
Event(job, stage, ok, raw_src, raw_dst, found, strip) ==
  [job |-> job, stage |-> stage, ok |-> ok, src |-> raw_src, dst |-> raw_dst,
   found |-> found, strip_outer_dir |-> strip]

\* raw_dst_path of the transfer
raw_dst_path(job) ==
  LET raw == PathStr(job.dst.abs_path)
  IN  IF EndsWithSep(raw) THEN raw ELSE Append(raw, SEP)

\* raw_src_path of the transfer; src_path is the parts of the path to copy
raw_src_path(job, src_path) ==
  LET raw == PathStr(src_path)
  IN  IF PathSuffix(src_path) = ""
         /\ (~job.encrypt \/ job.encryption_mode = FILE)
      THEN Append(raw, SEP) ELSE raw

\* the iteration with the transfer moved in front of the encryption
execute_job_transfer_first(k, job, create_ok, enc, rsync_ok, found, decrypt_ok) ==
  LET created == <<Event(k, "create_dir", create_ok, <<>>, <<>>, 0, FALSE)>>
      src_path == IF job.encrypt THEN encrypt_srcdir(job, enc)
                  ELSE job.src.abs_path
      encrypted == IF job.encrypt
                   THEN <<Event(k, "encrypt", enc = "ok", <<>>, <<>>, 0, FALSE)>>
                   ELSE <<>>
      transferred == <<Event(k, "transfer", rsync_ok,
                             raw_src_path(job, job.src.abs_path),
                             raw_dst_path(job), 0, FALSE)>>
      decrypted == <<Event(k, "decrypt", found = 0 \/ decrypt_ok, <<>>, <<>>,
                           found, FALSE)>>
  IN  IF ~create_ok THEN [calls |-> created, errors |-> 0]
      ELSE IF ~rsync_ok THEN [calls |-> created \o transferred, errors |-> 1]
      ELSE IF src_path = None
      THEN [calls |-> created \o transferred \o encrypted, errors |-> 1]
      ELSE [calls |-> created \o transferred \o encrypted \o decrypted,
            errors |-> IF found > 0 /\ ~decrypt_ok THEN found ELSE 0]

\* one iteration of the loop of execute_sync_jobs for job number k, given
\* what the outside does: whether the destination can be created, what the
\* encryption meets, whether rsync succeeds, how many ciphertexts the scan
\* of the destination finds and whether their decryption succeeds.
\* The calls made, in order, and the errors counted.
execute_job(k, job, create_ok, enc, rsync_ok, found, decrypt_ok) ==
  LET created == <<Event(k, "create_dir", create_ok, <<>>, <<>>, 0, FALSE)>>
      src_path == IF job.encrypt THEN encrypt_srcdir(job, enc)
                  ELSE job.src.abs_path
      encrypted == IF job.encrypt
                   THEN <<Event(k, "encrypt", enc = "ok", <<>>, <<>>, 0, FALSE)>>
                   ELSE <<>>
      strip_outer_dir == src_path # None /\ PathSuffix(src_path) = "" /\ job.decrypt
      transferred == <<Event(k, "transfer", rsync_ok, raw_src_path(job, src_path),
                             raw_dst_path(job), 0, FALSE)>>
      decrypted == <<Event(k, "decrypt", found = 0 \/ decrypt_ok, <<>>, <<>>,
                           found, strip_outer_dir)>>
  IN  IF ~create_ok THEN [calls |-> created, errors |-> 0]
      ELSE IF src_path = None
      THEN [calls |-> created \o encrypted, errors |-> 1]
      ELSE IF ~rsync_ok
      THEN [calls |-> created \o encrypted \o transferred, errors |-> 1]
      ELSE [calls |-> created \o encrypted \o transferred \o decrypted,
            errors |-> IF found > 0 /\ ~decrypt_ok THEN found ELSE 0]

\* ---------------------------------------------------------- select_sync_jobs
\* the operator's answers to the selection prompt for n jobs: "all", one
\* number, a range X:Y with X < Y, a comma-separated list, or "q"
SelectionInputs(n) ==
  {[kind |-> "all", indices |-> <<>>], [kind |-> "q", indices |-> <<>>]}
    \cup {[kind |-> "single", indices |-> <<i>>] : i \in 1..n}
    \cup UNION {{[kind |-> "range", indices |-> <<i, j>>] : j \in (i + 1)..n} :
                  i \in 1..n}
    \cup {[kind |-> "list", indices |-> l] :
            l \in UNION {[1..m -> 1..n] : m \in 2..MaxOpts}}

\* the comma-separated numbers as they were entered
unique_keeps_repetitions(indices, seen) == indices

RECURSIVE unique(_, _)
\* the comma-separated numbers without repetitions, first occurrences kept
unique(indices, seen) ==
  IF indices = <<>> THEN <<>>
  ELSE IF Head(indices) \in seen THEN unique(Tail(indices), seen)
  ELSE <<Head(indices)>> \o unique(Tail(indices), seen \cup {Head(indices)})

\* the 1-based numbers of the selected jobs
selected(n, input) ==
  CASE input.kind = "all" -> [i \in 1..n |-> i]
    [] input.kind = "q" -> <<>>
    [] input.kind = "single" -> input.indices
    [] input.kind = "range" ->
         [i \in 1..(input.indices[2] - input.indices[1] + 1) |->
            input.indices[1] + i - 1]
    [] input.kind = "list" -> unique(input.indices, {})

\* select_sync_jobs: a single job is not asked about; "q" and a declined
\* confirmation return no job
select_sync_jobs(jobs, input, confirmed) ==
  IF jobs = <<>> THEN <<>>
  ELSE LET picked == IF Len(jobs) > 1 THEN selected(Len(jobs), input)
                     ELSE <<1>>
       IN  IF input.kind = "q" /\ Len(jobs) > 1 THEN <<>>
           ELSE IF ~confirmed THEN <<>>
           ELSE [i \in 1..Len(picked) |-> jobs[picked[i]]]

\* ------------------------------------------------------------ configuration
SeqsUpTo(S, n) == UNION {[1..k -> S] : k \in 0..n}

\* the directory paths, modes and sub-path strings a configuration is drawn from
DefaultSrcPath == <<"docs">>
SrcPathChoices ==
  {DefaultSrcPath, <<"vault.crypt">>, <<"notes.txt">>, <<"gone">>, <<SEP, "docs">>}
ModeChoices == {FILE, DIRECTORY, "zip"}
SensSubChoices == {<<"a">>, <<"a", SEP, "b">>, None}
ExclSubChoices == {<<"a", SEP, "b">>, None}

DstDirName(i) == CASE i = 1 -> "bak1" [] i = 2 -> "bak2" [] i = 3 -> "bak3"
                   [] OTHER -> "bak4"

\* the number of settings by which an entry of "dirs" departs from a plain,
\* non-sensitive directory in per-file mode without sub-path lists
Options(e) ==
  (IF e.path # DefaultSrcPath THEN 1 ELSE 0)
    + (IF e.sensitive THEN 1 ELSE 0)
    + (IF e.encryption_mode # FILE THEN 1 ELSE 0)
    + Len(e.exclude_folders) + Len(e.sensitive_folders)

\* the entries of "dirs" with a path of P and exactly c such settings
SrcDirEntriesOver(P, c) ==
  {e \in [path : P, sensitive : BOOLEAN,
          encryption_mode : ModeChoices,
          exclude_folders : SeqsUpTo(ExclSubChoices, c),
          sensitive_folders : SeqsUpTo(SensSubChoices, c)] : Options(e) = c}

\* the entries of a source location's "dirs" with exactly c such settings
SrcDirEntries(c) == SrcDirEntriesOver(SrcPathChoices, c)

RECURSIVE SrcDirLists(_, _)
\* the "dirs" lists of at most n entries with at most b settings in total
SrcDirLists(n, b) ==
  IF n = 0 THEN {<<>>}
  ELSE {<<>>} \cup
       UNION {{<<e>> \o rest : e \in SrcDirEntries(c),
                               rest \in SrcDirLists(n - 1, b - c)} : c \in 0..b}

\* the "dirs" lists of a destination location: entry i is the directory
\* DstDirName(i), sensitive or not
DstDirLists(n) ==
  {[i \in 1..Len(f) |-> [path |-> <<DstDirName(i)>>, sensitive |-> f[i],
                         encryption_mode |-> FILE, exclude_folders |-> <<>>,
                         sensitive_folders |-> <<>>]] :
     f \in SeqsUpTo(BOOLEAN, n)}

\* the paths a destination entry may have instead of its plain name: an
\* absolute one and one that does not exist
DstPathChoices == {<<SEP, "bak">>, <<"gone">>}

\* the destination entry i of the given sensitivity
DstEntry(i, sensitive) ==
  [path |-> <<DstDirName(i)>>, sensitive |-> sensitive, encryption_mode |-> FILE,
   exclude_folders |-> <<>>, sensitive_folders |-> <<>>]

\* the "dirs" of the destination that mirror those of the source: one entry
\* per source entry, of the same sensitivity
AlignedDst(sdirs) == [i \in 1..Len(sdirs) |-> DstEntry(i, sdirs[i].sensitive)]

\* the entries that differ from e in exactly c settings (path, sensitivity)
DstEntryVariants(e, c) ==
  CASE c = 0 -> {e}
    [] c = 1 -> {[e EXCEPT !.sensitive = ~@]}
                  \cup {[e EXCEPT !.path = p] : p \in DstPathChoices}
    [] OTHER -> {[e EXCEPT !.sensitive = ~@, !.path = p] : p \in DstPathChoices}

RECURSIVE DstDirVariants(_, _)
\* the lists that differ from ddirs in at most b settings of their entries
DstDirVariants(ddirs, b) ==
  IF ddirs = <<>> THEN {<<>>}
  ELSE UNION {{<<h>> \o rest : h \in DstEntryVariants(Head(ddirs), c),
                               rest \in DstDirVariants(Tail(ddirs), b - c)} :
                c \in 0..Min(b, 2)}

\* the lists that differ from ddirs in at most b settings, a surplus last
\* entry or a missing last entry being one setting
DstDirChoices(ddirs, b) ==
  DstDirVariants(ddirs, b)
    \cup (IF b > 0 /\ Len(ddirs) < MaxDirs
          THEN UNION {DstDirVariants(Append(ddirs, DstEntry(Len(ddirs) + 1, f)),
                                     b - 1) : f \in BOOLEAN}
          ELSE {})
    \cup (IF b > 0 /\ Len(ddirs) > 0
          THEN DstDirVariants(SubSeq(ddirs, 1, Len(ddirs) - 1), b - 1)
          ELSE {})

RECURSIVE SumOptions(_)
\* the settings of a source "dirs" list
SumOptions(dirs) ==
  IF dirs = <<>> THEN 0 ELSE Options(Head(dirs)) + SumOptions(Tail(dirs))

Location(name, root_dir, dirs, trusted) ==
  [name |-> name, root_dir |-> root_dir, ssh |-> None, type |-> None,
   dirs |-> dirs, trusted |-> trusted, processed_dirs |-> <<>>]

\* -------------------------------------------------------------------- state
VARIABLES
  src,        \* config["locations"][args["src_location"]]
  dst,        \* config["locations"][args["dst_location"]]
  args,       \* the run's arguments
  pc,         \* the position of sync_locations
  sync_jobs,  \* the job list of sync_locations
  result,     \* <<v>> once sync_locations has returned v, <<>> before
  error,      \* the exception that ended the run, NoError if none
  selection,  \* the operator's answers in select_sync_jobs, NoSelection before
  job_idx,    \* the number of jobs execute_sync_jobs has gone through
  num_errors, \* num_errors of execute_sync_jobs
  log,        \* the calls execute_sync_jobs has made to the outside, in order
  argv,       \* the command line get_sync_arguments parses
  pickmode,   \* config["pickmode"]
  src_files,  \* the files below the directory encrypt_srcdir is given
  tmp_files,  \* the files below config["gpg"]["tmp_dir"], each with its writes
  enc_runs    \* the number of times encrypt_srcdir has run on the directory

exec == <<selection, job_idx, num_errors, log>>

\* what lies outside sync_locations: the command line and the pick mode flag
env == <<argv, pickmode>>

\* a run of sync_locations on a configuration as it was written: no command
\* line is looked at
NoArgv == <<>>
EnvIdle == argv = NoArgv /\ pickmode = FALSE

\* the temporary storage and the directory encrypted into it
tmpfs == <<src_files, tmp_files, enc_runs>>

\* a temporary directory that holds no file
EmptyStorage == [p \in {} |-> <<>>]
TmpIdle == src_files = {} /\ tmp_files = EmptyStorage /\ enc_runs = 0

vars == <<src, dst, args, pc, sync_jobs, result, error, selection, job_idx,
          num_errors, log, argv, pickmode, src_files, tmp_files, enc_runs>>

\* the settings in which the destination "dirs" differ from the aligned ones
DstOptions(sdirs, ddirs) ==
  Cardinality({i \in 1..Len(ddirs) : ddirs[i].path \in DstPathChoices})
    + Cardinality({i \in 1..Min(Len(sdirs), Len(ddirs)) :
                     ddirs[i].sensitive # sdirs[i].sensitive})
    + (IF Len(ddirs) # Len(sdirs) THEN 1 ELSE 0)

\* the sources of a manual matching for which the operator did not enter 1
LaterCandidates(m, dst_dirs) ==
  Cardinality({i \in 1..Len(m.ordered_src) :
     m.ordered_dst[i]
       # SelectSeq(dst_dirs, LAMBDA d : are_syncable(m.ordered_src[i], d))[1]})

NoSelection == [input |-> [kind |-> "none", indices |-> <<>>], confirmed |-> FALSE]

\* the ciphertexts the scan of a job's destination finds when nothing
\* unexpected is there: those the job has transferred
ExpectedFound(job) ==
  IF job.encrypt \/ has_suffix(job.src, CIPHERTEXT_ENDING) THEN 1 ELSE 0

\* the settings and events by which a run departs from the plain one: those
\* of the configuration, manual matching, a selection other than all jobs
\* confirmed (a comma-separated list counts by its length), every failing
\* call and every unexpected find of the scan
UsedOpts(sel, jobs, calls) ==
  SumOptions(src.dirs)
    + DstOptions(src.dirs, dst.dirs)
    + (IF args.manual_matching THEN 1 ELSE 0)
    + (IF sel = NoSelection \/ (sel.input.kind = "all" /\ sel.confirmed) THEN 0
       ELSE IF sel.input.kind = "list" THEN Len(sel.input.indices)
       ELSE 1)
    + Cardinality({i \in 1..Len(calls) :
                     \/ ~calls[i].ok
                     \/ /\ calls[i].stage = "decrypt"
                        /\ calls[i].found # ExpectedFound(jobs[calls[i].job])})

Init ==
  /\ \E manual \in BOOLEAN :
       LET budget == MaxOpts - (IF manual THEN 1 ELSE 0)
       IN  /\ budget >= 0
           /\ args = [manual_matching |-> manual]
           /\ \E sdirs \in SrcDirLists(MaxDirs, budget), t \in BOOLEAN :
                 /\ src = Location("local", <<SEP, "home">>, sdirs, TRUE)
                 /\ \E ddirs \in DstDirChoices(AlignedDst(sdirs),
                                              budget - SumOptions(sdirs)) :
                       dst = Location("usb", <<SEP, "mnt">>, ddirs, t)
  /\ pc = "preprocess_src"
  /\ sync_jobs = <<>>
  /\ result = <<>>
  /\ error = NoError
  /\ selection = NoSelection
  /\ job_idx = 0
  /\ num_errors = 0
  /\ log = <<>>
  /\ EnvIdle
  /\ TmpIdle

\* sync_locations, lines 24-34: tag both locations, preprocess the source
PreprocessSrc ==
  /\ pc = "preprocess_src"
  /\ LET tagged == [src EXCEPT !.type = "src"]
         r == preprocess_location(tagged)
     IN  /\ src' = [tagged EXCEPT !.processed_dirs = r.processed_dirs]
         /\ pc' = IF r.error # NoError THEN "raised" ELSE "preprocess_dst"
         /\ error' = r.error
  /\ dst' = [dst EXCEPT !.type = "dst"]
  /\ UNCHANGED <<args, sync_jobs, result>>
  /\ UNCHANGED exec
  /\ UNCHANGED env
  /\ UNCHANGED tmpfs

\* sync_locations, lines 35-37: preprocess the destination
PreprocessDst ==
  /\ pc = "preprocess_dst"
  /\ LET r == preprocess_location(dst)
     IN  /\ dst' = [dst EXCEPT !.processed_dirs = r.processed_dirs]
         /\ pc' = IF r.error # NoError THEN "raised" ELSE "match"
         /\ error' = r.error
  /\ UNCHANGED <<src, args, sync_jobs, result>>
  /\ UNCHANGED exec
  /\ UNCHANGED env
  /\ UNCHANGED tmpfs

\* automatic matching whose verdict is logged and not acted upon
CheckMatching_goes_on ==
  /\ pc = "match"
  /\ ~args.manual_matching
  /\ pc' = "build" /\ result' = result
  /\ UNCHANGED <<src, dst, args, sync_jobs, error>>
  /\ UNCHANGED exec
  /\ UNCHANGED env
  /\ UNCHANGED tmpfs

\* sync_locations, lines 46-48: automatic matching
CheckMatching ==
  /\ pc = "match"
  /\ ~args.manual_matching
  /\ IF check_matching_locations(src.processed_dirs, dst.processed_dirs)
     THEN pc' = "build" /\ result' = result
     ELSE pc' = "done" /\ result' = <<FALSE>>
  /\ UNCHANGED <<src, dst, args, sync_jobs, error>>
  /\ UNCHANGED exec
  /\ UNCHANGED env
  /\ UNCHANGED tmpfs

\* sync_locations, lines 42-44: manual matching; the operator's selections
\* are the input
MatchLocations ==
  /\ pc = "match"
  /\ args.manual_matching
  /\ \E m \in match_locations(src.processed_dirs, dst.processed_dirs) :
        /\ UsedOpts(NoSelection, <<>>, <<>>)
             + LaterCandidates(m, dst.processed_dirs) <= MaxOpts
        /\ src' = [src EXCEPT !.processed_dirs = m.ordered_src]
        /\ dst' = [dst EXCEPT !.processed_dirs = m.ordered_dst]
  /\ pc' = "build"
  /\ UNCHANGED <<args, sync_jobs, result, error>>
  /\ UNCHANGED exec
  /\ UNCHANGED env
  /\ UNCHANGED tmpfs

\* sync_locations, lines 52-59: plan the jobs
BuildSyncJobs ==
  /\ pc = "build"
  /\ LET r == build_sync_jobs(src, dst)
     IN  IF r.error # NoError
         THEN /\ pc' = "raised" /\ error' = r.error
              /\ sync_jobs' = sync_jobs /\ result' = result
         ELSE /\ sync_jobs' = r.jobs
              /\ error' = error
              /\ IF Len(r.jobs) = 0
                 THEN pc' = "done" /\ result' = <<TRUE>>
                 ELSE pc' = "select" /\ result' = result
  /\ UNCHANGED <<src, dst, args>>
  /\ UNCHANGED exec
  /\ UNCHANGED env
  /\ UNCHANGED tmpfs

\* sync_locations, line 62: the operator selects and confirms the jobs
SelectSyncJobs ==
  /\ pc = "select"
  /\ \E input \in (IF Len(sync_jobs) > 1 THEN SelectionInputs(Len(sync_jobs))
                   ELSE {[kind |-> "all", indices |-> <<>>]}),
        confirmed \in BOOLEAN :
       /\ input.kind = "q" => ~confirmed
       /\ selection' = [input |-> input, confirmed |-> confirmed]
       /\ sync_jobs' = select_sync_jobs(sync_jobs, input, confirmed)
  /\ UsedOpts(selection', sync_jobs', log) <= MaxOpts
  /\ pc' = "execute"
  /\ UNCHANGED <<src, dst, args, result, error, job_idx, num_errors, log>>
  /\ UNCHANGED env
  /\ UNCHANGED tmpfs

\* the iteration that leaves the loop once a call has failed
ExecuteJob_fail_fast ==
  /\ pc = "execute"
  /\ job_idx < Len(sync_jobs)
  /\ LET k == job_idx + 1
         job == sync_jobs[k]
     IN  \E create_ok \in BOOLEAN, enc \in EncryptionOutcomes,
            rsync_ok \in BOOLEAN, found \in 0..1, decrypt_ok \in BOOLEAN :
           /\ enc = "archiver_failed" => job.encryption_mode = DIRECTORY
           /\ (~create_ok \/ ~job.encrypt) => enc = "ok"
           /\ (~create_ok \/ (job.encrypt /\ encrypt_srcdir(job, enc) = None))
                => rsync_ok /\ found = 0
           /\ ~rsync_ok => found = 0
           /\ found = 0 => decrypt_ok
           /\ LET r == execute_job(k, job, create_ok, enc, rsync_ok, found,
                                   decrypt_ok)
              IN  /\ log' = log \o r.calls
                  /\ num_errors' = num_errors + r.errors
                  /\ job_idx' = IF \E i \in 1..Len(r.calls) : ~r.calls[i].ok
                                THEN Len(sync_jobs) ELSE k
  /\ UsedOpts(selection, sync_jobs, log') <= MaxOpts
  /\ UNCHANGED <<src, dst, args, pc, sync_jobs, result, error, selection>>
  /\ UNCHANGED env
  /\ UNCHANGED tmpfs

\* execute_sync_jobs, lines 90-142: one iteration of the loop
ExecuteJob ==
  /\ pc = "execute"
  /\ job_idx < Len(sync_jobs)
  /\ LET k == job_idx + 1
         job == sync_jobs[k]
     IN  \E create_ok \in BOOLEAN, enc \in EncryptionOutcomes,
            rsync_ok \in BOOLEAN, found \in 0..1, decrypt_ok \in BOOLEAN :
           /\ enc = "archiver_failed" => job.encryption_mode = DIRECTORY
           /\ (~create_ok \/ ~job.encrypt) => enc = "ok"
           /\ (~create_ok \/ (job.encrypt /\ encrypt_srcdir(job, enc) = None))
                => rsync_ok /\ found = 0
           /\ ~rsync_ok => found = 0
           /\ found = 0 => decrypt_ok
           /\ LET r == execute_job(k, job, create_ok, enc, rsync_ok, found,
                                   decrypt_ok)
              IN  /\ log' = log \o r.calls
                  /\ num_errors' = num_errors + r.errors
           /\ job_idx' = k
  /\ UsedOpts(selection, sync_jobs, log') <= MaxOpts
  /\ UNCHANGED <<src, dst, args, pc, sync_jobs, result, error, selection>>
  /\ UNCHANGED env
  /\ UNCHANGED tmpfs

\* execute_sync_jobs, line 144, and sync_locations, lines 64-68
ExecuteReturn ==
  /\ pc = "execute"
  /\ job_idx = Len(sync_jobs)
  /\ result' = <<num_errors = 0>>
  /\ pc' = "done"
  /\ UNCHANGED <<src, dst, args, sync_jobs, error, selection, job_idx,
                 num_errors, log>>
  /\ UNCHANGED env
  /\ UNCHANGED tmpfs

Next ==
  \/ PreprocessSrc
  \/ PreprocessDst
  \/ CheckMatching
  \/ MatchLocations
  \/ BuildSyncJobs
  \/ SelectSyncJobs
  \/ ExecuteJob
  \/ ExecuteReturn

Spec == Init /\ [][Next]_vars

\* The run with automatic matching and a destination list written to
\* mirror the source list, so that every plan reaches the executor. The
\* executor is one thread of blocking calls: as long as every external call
\* returns, the loop takes its next iteration and the function returns.
InitLive ==
  /\ args = [manual_matching |-> FALSE]
  /\ \E sdirs \in SrcDirLists(MaxDirs, MaxOpts - 1), t \in BOOLEAN :
        /\ src = Location("local", <<SEP, "home">>, sdirs, TRUE)
        /\ dst = Location("usb", <<SEP, "mnt">>, AlignedDst(sdirs), t)
  /\ pc = "preprocess_src" /\ sync_jobs = <<>> /\ result = <<>> /\ error = NoError
  /\ selection = NoSelection /\ job_idx = 0 /\ num_errors = 0 /\ log = <<>>
  /\ EnvIdle
  /\ TmpIdle

NextLive ==
  \/ PreprocessSrc
  \/ PreprocessDst
  \/ CheckMatching
  \/ BuildSyncJobs
  \/ SelectSyncJobs
  \/ ExecuteJob
  \/ ExecuteReturn

SpecLive ==
  InitLive /\ [][NextLive]_vars /\ WF_vars(ExecuteJob) /\ WF_vars(ExecuteReturn)

\* --------------------------------------------------- the planner on its own
\* build_sync_jobs called with any descriptors DirectoryWrapper can hold.  The
\* constructor stores the encryption_mode object it is given, so a descriptor
\* may carry a mode that is neither FILE nor DIRECTORY; ForeignMode stands
\* for such an object.
ForeignMode == "foreign"

\* processed_dirs with the mode of descriptor o replaced (o = 0: none)
WithForeignMode(dirs, o) ==
  [i \in 1..Len(dirs) |->
     IF i = o THEN [dirs[i] EXCEPT !.encryption_mode = ForeignMode] ELSE dirs[i]]

\* the planner never reads a destination's sensitivity flag: its destination
\* directories are the plain ones
PlainDstDirLists(n) ==
  {d \in DstDirLists(n) : \A i \in 1..Len(d) : ~d[i].sensitive}

InitPlanner ==
  /\ \E sdirs \in SrcDirLists(MaxDirs, MaxOpts),
        ddirs \in PlainDstDirLists(MaxDirs), t \in BOOLEAN, o \in 0..MaxDirs :
       LET s0 == [Location("local", <<SEP, "home">>, sdirs, TRUE)
                    EXCEPT !.type = "src"]
           d0 == [Location("usb", <<SEP, "mnt">>, ddirs, t) EXCEPT !.type = "dst"]
           ps == preprocess_location(s0)
           pd == preprocess_location(d0)
       IN  /\ ps.error = NoError
           /\ pd.error = NoError
           /\ o <= Len(ps.processed_dirs)
           /\ src = [s0 EXCEPT !.processed_dirs =
                                  WithForeignMode(ps.processed_dirs, o)]
           /\ dst = [d0 EXCEPT !.processed_dirs = pd.processed_dirs]
  /\ args = [manual_matching |-> FALSE]
  /\ pc = "build"
  /\ sync_jobs = <<>>
  /\ result = <<>>
  /\ error = NoError
  /\ selection = NoSelection
  /\ job_idx = 0
  /\ num_errors = 0
  /\ log = <<>>
  /\ EnvIdle
  /\ TmpIdle

NextPlanner == BuildSyncJobs

SpecPlanner == InitPlanner /\ [][NextPlanner]_vars

\* ------------------------------------------------ preprocessing on its own
\* preprocess_location on a location in the source role and on a location
\* with the same "dirs" in the destination role, with directory paths that
\* end in one or more separators among the choices
TrailingSepPaths ==
  {<<"docs", SEP>>, <<"docs", SEP, SEP>>, <<"vault.crypt", SEP>>}

RECURSIVE SrcDirListsOver(_, _, _)
\* the "dirs" lists of at most n entries with paths of P and at most b
\* settings in total
SrcDirListsOver(P, n, b) ==
  IF n = 0 THEN {<<>>}
  ELSE {<<>>} \cup
       UNION {{<<e>> \o rest : e \in SrcDirEntriesOver(P, c),
                               rest \in SrcDirListsOver(P, n - 1, b - c)} :
                c \in 0..b}

InitPreprocess ==
  /\ \E sdirs \in SrcDirListsOver(SrcPathChoices \cup TrailingSepPaths,
                                  MaxDirs, MaxOpts) :
        /\ src = Location("local", <<SEP, "home">>, sdirs, TRUE)
        /\ dst = Location("usb", <<SEP, "mnt">>, sdirs, FALSE)
  /\ args = [manual_matching |-> FALSE]
  /\ pc = "preprocess_src"
  /\ sync_jobs = <<>>
  /\ result = <<>>
  /\ error = NoError
  /\ selection = NoSelection
  /\ job_idx = 0
  /\ num_errors = 0
  /\ log = <<>>
  /\ EnvIdle
  /\ TmpIdle

NextPreprocess ==
  \/ PreprocessSrc
  \/ PreprocessDst

SpecPreprocess == InitPreprocess /\ [][NextPreprocess]_vars

\* ------------------------------------------------ the command line (parser.py)
COLON == ":"
DEFAULT_CONFIG_FILE == <<"config.yaml">>
UnpackError == "ValueError: too many values to unpack"
UnboundDecryption == "UnboundLocalError: decryption"

\* sub in s
Contains(s, sub) == \E i \in 1..Len(s) : s[i] = sub

RECURSIVE split(_, _)
\* str.split(sep): the pieces of s between the separators
split(s, sep) ==
  IF ~Contains(s, sep) THEN <<s>>
  ELSE LET i == CHOOSE k \in 1..Len(s) :
                  s[k] = sep /\ \A m \in 1..(k - 1) : s[m] # sep
       IN  <<SubSeq(s, 1, i - 1)>> \o split(SubSeq(s, i + 1, Len(s)), sep)

\* "location, path = a.split(":") if ":" in a else (a, None)"; the unpacking
\* raises unless the split gives two pieces
location_and_path(a) ==
  IF ~Contains(a, COLON) THEN [error |-> NoError, location |-> a, path |-> None]
  ELSE LET pieces == split(a, COLON)
       IN  IF Len(pieces) # 2
           THEN [error |-> UnpackError, location |-> None, path |-> None]
           ELSE [error |-> NoError, location |-> pieces[1], path |-> pieces[2]]

\* get_sync_arguments on the parsed options a: the returned dictionary (none
\* tells that None is returned, as for equal locations), or the exception of
\* an argument with two colons
get_sync_arguments(a) ==
  LET s == location_and_path(a.src)
      d == location_and_path(a.dst)
  IN  IF s.error # NoError THEN [error |-> s.error, none |-> TRUE, args |-> None]
      ELSE IF d.error # NoError THEN [error |-> d.error, none |-> TRUE, args |-> None]
      ELSE IF s.location = d.location
      THEN [error |-> NoError, none |-> TRUE, args |-> None]
      ELSE [error |-> NoError, none |-> FALSE,
            args |-> [src_location |-> s.location,
                      dst_location |-> d.location,
                      src_path |-> s.path,
                      dst_path |-> d.path,
                      dry_run |-> a.dry,
                      manual_matching |-> a.match,
                      encrypt_src |-> a.encrypt,
                      config_file |-> IF a.config # None THEN a.config
                                      ELSE DEFAULT_CONFIG_FILE,
                      remove_remote_files |-> FALSE]]

\* str.endswith(suffix) and os.path.splitext(s)[1] of a path string
endswith(s, suffix) == Len(s) > 0 /\ s[Len(s)] # SEP /\ NameSuffix(s[Len(s)]) = suffix
splitext_ext(s) == IF Len(s) = 0 \/ s[Len(s)] = SEP THEN "" ELSE NameSuffix(s[Len(s)])

\* an entry of "dirs" written by pick mode: a path and, if set, "sensitive";
\* preprocess_location reads the keys that are absent as their defaults
PickedDir(path, sensitive) ==
  [path |-> path, sensitive |-> sensitive, encryption_mode |-> FILE,
   exclude_folders |-> <<>>, sensitive_folders |-> <<>>]

\* check_pick_mode(config, args) on the two locations the arguments name:
\* the locations as it leaves them and config["pickmode"], or the exception
check_pick_mode(s, d, a) ==
  LET src_picked == a.src_path # None
      dst_picked == a.dst_path # None
      decryption == src_picked /\ endswith(a.src_path, CIPHERTEXT_ENDING)
      dst_ext == IF dst_picked THEN splitext_ext(a.dst_path) ELSE ""
      src_sensitive == \/ src_picked /\ decryption /\ dst_ext = ""
                       \/ src_picked /\ dst_picked /\ a.encrypt_src
      s1 == IF src_picked
            THEN [s EXCEPT !.trusted = FALSE,
                           !.dirs = <<PickedDir(a.src_path, src_sensitive)>>]
            ELSE s
      d1 == IF dst_picked
            THEN [d EXCEPT !.trusted = IF a.encrypt_src THEN FALSE ELSE @,
                           !.dirs = <<PickedDir(a.dst_path,
                                                a.encrypt_src \/ decryption)>>]
            ELSE d
  IN  IF dst_picked /\ ~a.encrypt_src /\ ~src_picked
      THEN \* line 153 reads "decryption", which only line 119 assigns
           [error |-> UnboundDecryption, src |-> s, dst |-> d, pickmode |-> TRUE]
      ELSE [error |-> NoError, src |-> s1, dst |-> d1,
            pickmode |-> src_picked \/ dst_picked]

\* the locations the configuration file declares
ConfiguredLocations == {<<"local">>, <<"usb">>}

\* the command lines: locations by name, with or without a picked path
ArgvLocations == ConfiguredLocations \cup {<<"nas">>}
ArgvSrcPaths == {<<"docs">>, <<"vault.crypt">>, <<"docs", COLON, "a">>}
ArgvDstPaths == {<<"bak1">>, <<"notes.txt">>}
WithPath(location, paths) ==
  {location} \cup {location \o <<COLON>> \o p : p \in paths}
Argvs ==
  [src : UNION {WithPath(l, ArgvSrcPaths) : l \in ArgvLocations},
   dst : UNION {WithPath(l, ArgvDstPaths) : l \in ArgvLocations},
   config : {None, <<"test_config">>},
   dry : BOOLEAN, remove : {TRUE}, encrypt : BOOLEAN, match : BOOLEAN]

\* the location of the configuration file a command-line argument names
ArgvLocation(a) == Head(split(a, COLON))
ConfiguredDirs == <<PickedDir(DefaultSrcPath, FALSE)>>

InitParser ==
  /\ argv \in Argvs
  /\ \E st \in BOOLEAN, dt \in BOOLEAN :
       /\ src = Location(ArgvLocation(argv.src)[1], <<SEP, "home">>,
                         ConfiguredDirs, st)
       /\ dst = Location(ArgvLocation(argv.dst)[1], <<SEP, "mnt">>,
                         AlignedDst(ConfiguredDirs), dt)
  /\ args = None
  /\ pickmode = FALSE
  /\ pc = "get_sync_arguments"
  /\ sync_jobs = <<>>
  /\ result = <<>>
  /\ error = NoError
  /\ selection = NoSelection
  /\ job_idx = 0
  /\ num_errors = 0
  /\ log = <<>>
  /\ TmpIdle

\* utils.init, lines 41-43: parse the command line
GetSyncArguments ==
  /\ pc = "get_sync_arguments"
  /\ LET r == get_sync_arguments(argv)
     IN  /\ args' = r.args
         /\ error' = r.error
         /\ pc' = IF r.error # NoError THEN "raised"
                  ELSE IF r.none THEN "done"
                  ELSE "check_pick_mode"
  /\ UNCHANGED <<src, dst, sync_jobs, result, argv, pickmode>>
  /\ UNCHANGED exec
  /\ UNCHANGED tmpfs

\* utils.init, lines 48-68: read the configuration file, look the two
\* locations up and apply pick mode; sync_locations comes next
CheckPickMode ==
  /\ pc = "check_pick_mode"
  /\ \E config_found \in BOOLEAN :
       IF \/ ~config_found
          \/ args.src_location \notin ConfiguredLocations
          \/ args.dst_location \notin ConfiguredLocations
       THEN pc' = "done" /\ UNCHANGED <<src, dst, pickmode, error>>
       ELSE LET r == check_pick_mode(src, dst, args)
            IN  /\ src' = r.src
                /\ dst' = r.dst
                /\ pickmode' = r.pickmode
                /\ error' = r.error
                /\ pc' = IF r.error # NoError THEN "raised" ELSE "preprocess_src"
  /\ UNCHANGED <<args, sync_jobs, result, argv>>
  /\ UNCHANGED exec
  /\ UNCHANGED tmpfs

NextParser ==
  \/ GetSyncArguments
  \/ CheckPickMode

SpecParser == InitParser /\ [][NextParser]_vars

\* ==================================================== encryption on its own
\* the runs of encrypt_srcdir on one directory
MaxRuns == 2

\* Path.with_suffix(ARCHIVE_ENDING) on one path component: the suffix of the
\* name, if it has one, is replaced
WithPlainArchiveSuffix(n) ==
  CASE n = "docs" -> "docs.synchive"
    [] n = "notes.txt" -> "notes.synchive"
    [] OTHER -> n

\* Path.with_suffix(relative_path.suffix + CIPHERTEXT_ENDING) on one path
\* component: the ciphertext ending comes after the suffix the name has
WithCiphertextSuffix(n) ==
  CASE n = "f" -> "f.crypt"
    [] n = "notes.txt" -> "notes.txt.crypt"
    [] OTHER -> n

\* the path with its last component replaced
WithName(path, n) == SubSeq(path, 1, Len(path) - 1) \o <<n>>

\* what one call wrote into a file: the tool, the file it read, the run of
\* encrypt_srcdir it belonged to, and whether the output is whole
Written(tool, input, run, complete) ==
  [tool |-> tool, input |-> input, run |-> run, complete |-> complete]

\* one call encrypt_srcdir makes to the outside
Call(run, tool, ok, input, output) ==
  [run |-> run, tool |-> tool, ok |-> ok, input |-> input, output |-> output]

\* Path.unlink and the creation of a file with the given content
Unlink(storage, p) == [q \in DOMAIN storage \ {p} |-> storage[q]]
Put(storage, p, content) ==
  [q \in DOMAIN storage \cup {p} |-> IF q = p THEN content ELSE storage[q]]

\* what encrypt_file meets: a cipher that writes the ciphertext, one that
\* cannot run or fails without output (the recipient is not configured, the
\* key is unknown), one that fails after it has written part of the output
GpgOutcomes == {"ok", "failed", "partial"}

\* encrypt_file that leaves the old ciphertext in place and writes after it
encrypt_file_appending(storage, file_to_encrypt, out_file, outcome, run) ==
  IF outcome = "failed" THEN storage
  ELSE Put(storage, out_file,
           (IF out_file \in DOMAIN storage THEN storage[out_file] ELSE <<>>)
             \o <<Written("gpg", file_to_encrypt, run, outcome = "ok")>>)

\* encrypt_file: the temporary storage after the call.  The ciphertext of an
\* earlier run is removed before anything else is looked at.
encrypt_file(storage, file_to_encrypt, out_file, outcome, run) ==
  LET removed == Unlink(storage, out_file)
  IN  IF outcome = "failed" THEN removed
      ELSE Put(removed, out_file,
               <<Written("gpg", file_to_encrypt, run, outcome = "ok")>>)

\* _encrypt_as_archive: tar -czf replaces the archive, the archive is then
\* encrypted; the archive itself stays in the temporary storage
encrypt_as_archive(storage, input_dir, output_dir, tar_ok, gpg, run) ==
  LET name == output_dir[Len(output_dir)]
      archive_path == WithName(output_dir, WithPlainArchiveSuffix(name))
      ciphertext_path == WithName(output_dir, WithArchiveSuffix(name))
  IN  IF ~tar_ok THEN storage
      ELSE encrypt_file(Put(storage, archive_path,
                            <<Written("tar", input_dir, run, TRUE)>>),
                        archive_path, ciphertext_path, gpg, run)

\* the calls of _encrypt_as_archive
encrypt_as_archive_calls(input_dir, output_dir, tar_ok, gpg, run) ==
  LET name == output_dir[Len(output_dir)]
      archive_path == WithName(output_dir, WithPlainArchiveSuffix(name))
      ciphertext_path == WithName(output_dir, WithArchiveSuffix(name))
  IN  <<Call(run, "tar", tar_ok, input_dir, archive_path)>>
        \o (IF tar_ok
            THEN <<Call(run, "gpg", gpg = "ok", archive_path, ciphertext_path)>>
            ELSE <<>>)

\* output_file_path of _encrypt_files_individually
output_file_path(output_dir, relative_path) ==
  WithName(output_dir \o relative_path,
           WithCiphertextSuffix(relative_path[Len(relative_path)]))

\* _encrypt_files_individually: every file os.walk yields is encrypted to
\* its own path below output_dir, whatever became of the files before it
RECURSIVE encrypt_files_individually(_, _, _, _, _, _)
encrypt_files_individually(storage, input_dir, output_dir, files, o, run) ==
  IF files = {} THEN storage
  ELSE LET relative_path == CHOOSE f \in files : TRUE
       IN  encrypt_files_individually(
             encrypt_file(storage, input_dir \o relative_path,
                          output_file_path(output_dir, relative_path),
                          o[relative_path], run),
             input_dir, output_dir, files \ {relative_path}, o, run)

\* the calls of _encrypt_files_individually
RECURSIVE encrypt_files_individually_calls(_, _, _, _, _)
encrypt_files_individually_calls(input_dir, output_dir, files, o, run) ==
  IF files = {} THEN <<>>
  ELSE LET relative_path == CHOOSE f \in files : TRUE
       IN  <<Call(run, "gpg", o[relative_path] = "ok", input_dir \o relative_path,
                  output_file_path(output_dir, relative_path))>>
             \o encrypt_files_individually_calls(input_dir, output_dir,
                                                 files \ {relative_path}, o, run)

\* encrypt_srcdir: the temporary storage after the call
encrypt_srcdir_storage(storage, job, files, is_dir, tar_ok, gpg, o, run) ==
  LET input_dir == job.src.abs_path
      output_dir == PathOf(TmpDir) \o Tail(input_dir)
  IN  IF ~is_dir THEN storage
      ELSE IF job.encryption_mode = DIRECTORY
      THEN encrypt_as_archive(storage, input_dir, output_dir, tar_ok, gpg, run)
      ELSE IF job.encryption_mode = FILE
      THEN encrypt_files_individually(storage, input_dir, output_dir, files, o, run)
      ELSE storage

\* the calls of encrypt_srcdir
encrypt_srcdir_calls(job, files, is_dir, tar_ok, gpg, o, run) ==
  LET input_dir == job.src.abs_path
      output_dir == PathOf(TmpDir) \o Tail(input_dir)
  IN  IF ~is_dir THEN <<Call(run, "is_dir", FALSE, input_dir, None)>>
      ELSE IF job.encryption_mode = DIRECTORY
      THEN encrypt_as_archive_calls(input_dir, output_dir, tar_ok, gpg, run)
      ELSE IF job.encryption_mode = FILE
      THEN encrypt_files_individually_calls(input_dir, output_dir, files, o, run)
      ELSE <<>>

\* the sensitive directories encrypted and the files they may hold
EncryptedDirs == {<<"docs">>, <<"notes.txt">>}
SourceFileChoices == {<<"f">>, <<"notes.txt">>, <<"a", "f">>}

\* one job that encrypts its source, an empty temporary directory
InitEncrypt ==
  /\ \E d \in EncryptedDirs, mode \in {FILE, DIRECTORY} :
       sync_jobs = <<SyncJob(MyPath(<<SEP, "home">>, d, <<>>, None),
                             MyPath(<<SEP, "mnt">>, d, <<>>, None),
                             TRUE, FALSE, <<>>, None, mode)>>
  /\ src_files \in SUBSET SourceFileChoices
  /\ tmp_files = EmptyStorage
  /\ enc_runs = 0
  /\ src = Location("local", <<SEP, "home">>, <<>>, TRUE)
  /\ dst = Location("usb", <<SEP, "mnt">>, <<>>, FALSE)
  /\ args = [manual_matching |-> FALSE]
  /\ pc = "encrypt"
  /\ result = <<>>
  /\ error = NoError
  /\ selection = NoSelection
  /\ job_idx = 0
  /\ num_errors = 0
  /\ log = <<>>
  /\ EnvIdle

\* encrypt_srcdir on the job's source, once more on what the runs before it
\* left in the temporary directory
EncryptSrcdir ==
  /\ pc = "encrypt"
  /\ enc_runs < MaxRuns
  /\ \E is_dir \in BOOLEAN, tar_ok \in BOOLEAN, gpg \in GpgOutcomes,
        o \in [src_files -> GpgOutcomes] :
       /\ tmp_files' = encrypt_srcdir_storage(tmp_files, sync_jobs[1], src_files,
                                              is_dir, tar_ok, gpg, o, enc_runs + 1)
       /\ log' = log \o encrypt_srcdir_calls(sync_jobs[1], src_files, is_dir,
                                             tar_ok, gpg, o, enc_runs + 1)
  /\ enc_runs' = enc_runs + 1
  /\ UNCHANGED <<src, dst, args, pc, sync_jobs, result, error, selection,
                 job_idx, num_errors, src_files>>
  /\ UNCHANGED env

NextEncrypt == EncryptSrcdir

SpecEncrypt == InitEncrypt /\ [][NextEncrypt]_vars

TypeOK == pc \in {"preprocess_src", "preprocess_dst", "match", "build", "select",
                  "execute", "done", "raised"}

\* =============================================================== properties
\* The matched pairs are the positions both processed_dirs lists have; a plan
\* exists once build_sync_jobs has returned.
NPairs == Min(Len(src.processed_dirs), Len(dst.processed_dirs))
Planned ==
  pc = "select" \/ (pc = "done" /\ result = <<TRUE>> /\ selection = NoSelection)

SrcDir(i) == src.processed_dirs[i]
DstDir(i) == dst.processed_dirs[i]
SensCount(i) == Len(SrcDir(i).sensitive_folders)
Splitting(i) == ~dst.trusted /\ SensCount(i) > 0

\* the number of jobs the spec gives pair i, and the jobs of the pairs before i
JobCount(i) == IF dst.trusted THEN 1 ELSE 1 + SensCount(i)
RECURSIVE JobsBefore(_)
JobsBefore(i) == IF i <= 1 THEN 0 ELSE JobsBefore(i - 1) + JobCount(i - 1)
PlanHasExpectedLength == Len(sync_jobs) = JobsBefore(NPairs + 1)
PrimaryJob(i) == sync_jobs[JobsBefore(i) + 1]
SplitJob(i, k) == sync_jobs[JobsBefore(i) + 1 + k]
JobsOfPair(i) == {sync_jobs[j] : j \in (JobsBefore(i) + 1)..JobsBefore(i + 1)}

SubPths(paths) == [k \in 1..Len(paths) |-> paths[k].sub_pth]
InSeq(x, seq) == \E k \in 1..Len(seq) : seq[k] = x

\* the names that end in the ciphertext suffix
CiphertextNames == {"vault.crypt"}
BearsCiphertextSuffix(path) ==
  Len(path.abs_path) > 0 /\ path.abs_path[Len(path.abs_path)] \in CiphertextNames

EncryptDecryptExclusive ==
  /\ \A j \in 1..Len(sync_jobs) : ~(sync_jobs[j].encrypt /\ sync_jobs[j].decrypt)
  /\ error # InvalidState

\* a plan for a trusted destination with a decrypting job
EncryptDecryptExclusiveWitness ==
  /\ pc = "select" /\ dst.trusted
  /\ \E j \in 1..Len(sync_jobs) : sync_jobs[j].decrypt /\ ~sync_jobs[j].encrypt

\* C3: the primary job of every matched pair carries
\* encrypt = sensitive and not trusted and not ciphertext, and
\* decrypt = sensitive and trusted; a non-sensitive directory gives both false.
PolicyTable ==
  Planned =>
    /\ PlanHasExpectedLength
    /\ \A i \in 1..NPairs :
         LET s == SrcDir(i).is_sensitive
             c == BearsCiphertextSuffix(SrcDir(i).root_path)
             t == dst.trusted
         IN  /\ PrimaryJob(i).encrypt = (s /\ ~t /\ ~c)
             /\ PrimaryJob(i).decrypt = (s /\ t)
             /\ ~s => (~PrimaryJob(i).encrypt /\ ~PrimaryJob(i).decrypt)

\* a sensitive directory that is already ciphertext, planned for an untrusted
\* destination beside a non-sensitive one
PolicyTableWitness ==
  /\ pc = "select" /\ ~dst.trusted /\ PlanHasExpectedLength
  /\ \E i \in 1..NPairs :
       /\ SrcDir(i).is_sensitive
       /\ BearsCiphertextSuffix(SrcDir(i).root_path)
       /\ ~PrimaryJob(i).encrypt /\ ~PrimaryJob(i).decrypt
  /\ \E i \in 1..NPairs : ~SrcDir(i).is_sensitive

\* C4: the plan holds 1 + n jobs for every matched pair when the destination
\* is untrusted (n the pair's registered sensitive sub-paths) and 1 when it is
\* trusted: its length is the sum over the pairs, with one primary job (a
\* source without sub-path) per pair.
PlanLength ==
  Planned =>
    /\ PlanHasExpectedLength
    /\ Cardinality({j \in 1..Len(sync_jobs) : sync_jobs[j].src.sub_pth = <<>>})
         = NPairs
    /\ dst.trusted => Len(sync_jobs) = NPairs

\* two matched pairs with one sensitive sub-path each, untrusted: four jobs
PlanLengthWitness ==
  /\ pc = "select" /\ ~dst.trusted /\ NPairs = 2
  /\ SensCount(1) = 1 /\ SensCount(2) = 1
  /\ Len(sync_jobs) = 4

\* C5: the primary job's excludes are the ordinary excludes, followed by the
\* sensitive sub-paths exactly when the destination is untrusted and the source
\* has a sensitive sub-path.
PrimaryExcludes ==
  Planned =>
    /\ PlanHasExpectedLength
    /\ \A i \in 1..NPairs :
         PrimaryJob(i).excludes =
           SubPths(SrcDir(i).exclude_folders)
             \o (IF Splitting(i) THEN SubPths(SrcDir(i).sensitive_folders)
                 ELSE <<>>)

\* a trusted destination: the sensitive sub-path is not among the excludes
PrimaryExcludesWitness ==
  /\ pc = "select" /\ dst.trusted /\ PlanHasExpectedLength
  /\ \E i \in 1..NPairs :
       /\ SensCount(i) > 0
       /\ Len(SrcDir(i).exclude_folders) > 0
       /\ PrimaryJob(i).excludes = SubPths(SrcDir(i).exclude_folders)
       /\ ~InSeq(SrcDir(i).sensitive_folders[1].sub_pth, PrimaryJob(i).excludes)

\* C6: the k-th split job of a pair has the k-th sensitive sub-path as source,
\* encrypt true, decrypt false, no excludes and the source directory's
\* encryption mode; with a trusted destination every job is a primary job.
SplitJobShape ==
  Planned =>
    /\ PlanHasExpectedLength
    /\ \A i \in 1..NPairs : \A k \in 1..(JobCount(i) - 1) :
         /\ SplitJob(i, k).src = SrcDir(i).sensitive_folders[k]
         /\ SplitJob(i, k).encrypt
         /\ ~SplitJob(i, k).decrypt
         /\ SplitJob(i, k).excludes = <<>>
         /\ SplitJob(i, k).encryption_mode = SrcDir(i).encryption_mode
    /\ dst.trusted =>
         \A j \in 1..Len(sync_jobs) :
           j <= NPairs /\ sync_jobs[j].src = SrcDir(j).root_path

\* a split job of a directory that also has an ordinary exclude
SplitJobShapeWitness ==
  /\ pc = "select" /\ ~dst.trusted /\ PlanHasExpectedLength
  /\ \E i \in 1..NPairs :
       /\ SensCount(i) > 0
       /\ Len(SrcDir(i).exclude_folders) > 0
       /\ SplitJob(i, 1).excludes = <<>>
       /\ SplitJob(i, 1).encrypt

\* the pairs the planner reaches before it stops: all of them, or those up to
\* the first one that needs splitting under a mode it does not support
Unsupported(i) == Splitting(i) /\ SrcDir(i).encryption_mode \notin {FILE, DIRECTORY}

\* the parts of the absolute path a split job's destination must have
ExpectedSplitDst(i, k) ==
  LET sub == PathOf(SrcDir(i).sensitive_folders[k].sub_pth)
      base == DstDir(i).root_path.abs_path
  IN  IF SrcDir(i).encryption_mode = FILE THEN base \o sub
      ELSE base \o SubSeq(sub, 1, Len(sub) - 1)

\* C7: a split job's destination is the destination directory joined with the
\* sensitive sub-path in per-file mode and with the sub-path's parent in
\* whole-directory mode; planning fails with an error exactly when a pair
\* that needs splitting carries any other encryption mode.
SplitDestination ==
  pc # "build" =>
    /\ (pc = "raised" /\ error = UnsupportedEncryptionMode)
         <=> (\E i \in 1..NPairs : Unsupported(i))
    /\ Planned =>
         /\ PlanHasExpectedLength
         /\ \A i \in 1..NPairs : \A k \in 1..(JobCount(i) - 1) :
              /\ SrcDir(i).encryption_mode \in {FILE, DIRECTORY}
              /\ SplitJob(i, k).dst.abs_path = ExpectedSplitDst(i, k)

\* a plan with a whole-directory split job of a nested sub-path
SplitDestinationWitness ==
  /\ Planned /\ PlanHasExpectedLength
  /\ \E i \in 1..NPairs : \E k \in 1..(JobCount(i) - 1) :
       /\ SrcDir(i).encryption_mode = DIRECTORY
       /\ Len(PathOf(SrcDir(i).sensitive_folders[k].sub_pth)) = 2

\* planning stopped at a pair whose mode is neither FILE nor DIRECTORY
SplitDestinationRaisedWitness ==
  /\ pc = "raised" /\ error = UnsupportedEncryptionMode
  /\ \E i \in 1..NPairs : Unsupported(i)

\* C8: the plan lists the pairs in order; within a pair the primary job comes
\* first and the split jobs follow in the order the sensitive sub-paths were
\* registered.
PlanOrder ==
  Planned =>
    /\ PlanHasExpectedLength
    /\ \A i \in 1..NPairs :
         /\ PrimaryJob(i).src = SrcDir(i).root_path
         /\ PrimaryJob(i).dst = DstDir(i).root_path
         /\ \A k \in 1..(JobCount(i) - 1) :
              /\ SplitJob(i, k).src.sub_pth = SrcDir(i).sensitive_folders[k].sub_pth
              /\ IsPrefix(DstDir(i).root_path.abs_path, SplitJob(i, k).dst.abs_path)

\* two pairs, the first with two different sensitive sub-paths: its split jobs
\* stand between the two primary jobs
PlanOrderWitness ==
  /\ pc = "select" /\ ~dst.trusted /\ NPairs = 2 /\ Len(sync_jobs) = 4
  /\ SensCount(1) = 2
  /\ SrcDir(1).sensitive_folders[1] # SrcDir(1).sensitive_folders[2]
  /\ sync_jobs[4].dst = DstDir(2).root_path

\* the paths below a directory that coverage is judged on
FileNames == {"a", "b", "f"}
PathsBelow(root) ==
  {root \o q : q \in UNION {[1..n -> FileNames] : n \in 1..3}}

\* a job covers a path inside its source subtree and under none of its excludes
Covers(job, p) ==
  /\ IsPrefix(job.src.abs_path, p)
  /\ \A e \in 1..Len(job.excludes) :
       ~IsPrefix(PathJoin(job.src.abs_path, job.excludes[e]), p)

\* C9: no path below the source directory of a matched pair is covered by
\* more than one job of that pair.
JobsNeverOverlap ==
  Planned =>
    /\ PlanHasExpectedLength
    /\ \A i \in 1..NPairs : \A p \in PathsBelow(SrcDir(i).root_path.abs_path) :
         Cardinality({j \in (JobsBefore(i) + 1)..JobsBefore(i + 1) :
                        Covers(sync_jobs[j], p)}) <= 1

\* the part of C9 the planner keeps: the primary job of a pair covers no path
\* that a split job of the pair covers
PrimaryDisjointFromSplit ==
  Planned =>
    /\ PlanHasExpectedLength
    /\ \A i \in 1..NPairs : \A p \in PathsBelow(SrcDir(i).root_path.abs_path) :
         \A k \in 1..(JobCount(i) - 1) :
           ~(Covers(PrimaryJob(i), p) /\ Covers(SplitJob(i, k), p))

\* every source descriptor has a destination descriptor at its index with the
\* same sensitivity flag
IndexAligned ==
  \A i \in 1..Len(src.processed_dirs) :
    /\ i <= Len(dst.processed_dirs)
    /\ SrcDir(i).is_sensitive = DstDir(i).is_sensitive

\* C10: automatic matching succeeds exactly when every source descriptor has
\* a destination descriptor at its index with the same sensitivity flag:
\* surplus destinations never make it fail, a source without a destination
\* at its index always does.
AutomaticMatching ==
  [][(pc = "match" /\ ~args.manual_matching)
       => /\ (pc' = "build") <=> IndexAligned
          /\ (pc' = "done" /\ result' = <<FALSE>>) <=> ~IndexAligned]_vars

\* automatic matching succeeded although the destination has a surplus
\* directory of the other sensitivity
AutomaticMatchingWitness ==
  /\ pc = "build" /\ ~args.manual_matching
  /\ Len(src.processed_dirs) = 1 /\ Len(dst.processed_dirs) = 2
  /\ DstDir(2).is_sensitive # SrcDir(1).is_sensitive

\* the source descriptors that have a destination descriptor of the same
\* sensitivity, in their order
SourcesWithCandidate ==
  SelectSeq(src.processed_dirs,
            LAMBDA s : \E j \in 1..Len(dst.processed_dirs) :
                          s.is_sensitive = DstDir(j).is_sensitive)

\* C11: manual matching never fails: whatever the operator selects, it goes
\* on to planning with source and destination lists of equal length whose
\* pairs agree in sensitivity; the sources are those that have a destination
\* of their sensitivity, in their original order (the others are dropped),
\* and every destination is one of the preprocessed destinations.
ManualMatching ==
  [][(pc = "match" /\ args.manual_matching)
       => /\ pc' = "build" /\ error' = NoError /\ result' = <<>>
          /\ Len(src'.processed_dirs) = Len(dst'.processed_dirs)
          /\ src'.processed_dirs = SourcesWithCandidate
          /\ \A i \in 1..Len(dst'.processed_dirs) :
               /\ \E j \in 1..Len(dst.processed_dirs) :
                     dst'.processed_dirs[i] = DstDir(j)
               /\ i <= Len(src'.processed_dirs)
               /\ src'.processed_dirs[i].is_sensitive
                    = dst'.processed_dirs[i].is_sensitive]_vars

\* manual matching has dropped an existing source that has no destination
\* of its sensitivity
ManualMatchingWitness ==
  /\ pc = "build" /\ args.manual_matching
  /\ Len(src.dirs) = 1 /\ src.dirs[1].path = DefaultSrcPath
  /\ src.processed_dirs = <<>> /\ dst.processed_dirs = <<>>

\* some configured directory of the location has an absolute path
HasAbsolute(location) ==
  \E i \in 1..Len(location.dirs) : StartsWithSep(location.dirs[i].path)

\* some configured directory of the location names no encryption mode
HasInvalidMode(location) ==
  \E i \in 1..Len(location.dirs) :
     location.dirs[i].encryption_mode \notin {FILE, DIRECTORY}

\* the run was ended by a configuration error and has planned nothing
ConfigurationFailed ==
  /\ pc = "raised"
  /\ error \in {AbsolutePathIgnored, InvalidEncryptionMode}
  /\ error = InvalidEncryptionMode => HasInvalidMode(src) \/ HasInvalidMode(dst)
  /\ sync_jobs = <<>>
  /\ result = <<>>

\* C19: once a location with an absolute directory path has been
\* preprocessed, in the source or in the destination role, the run has
\* ended with a configuration error and no job is planned.
AbsolutePathFails ==
  /\ (HasAbsolute(src) /\ pc # "preprocess_src") => ConfigurationFailed
  /\ (HasAbsolute(dst) /\ pc \notin {"preprocess_src", "preprocess_dst"})
       => ConfigurationFailed

\* the destination, with an absolute directory path, was preprocessed after
\* a source without one
AbsolutePathFailsWitness ==
  /\ pc = "raised" /\ error = AbsolutePathIgnored
  /\ HasAbsolute(dst) /\ ~HasAbsolute(src)
  /\ Len(src.processed_dirs) > 0

\* the configured directory names a supported mode and a relative path
WellFormed(e) ==
  e.encryption_mode \in {FILE, DIRECTORY} /\ ~StartsWithSep(e.path)

\* the directory path of a configured entry of a location
EntryPath(location, e) ==
  MyPath(location.root_dir, RStripSep(e.path), <<>>, location.ssh)

\* descriptor d is the one of the configured entry e
DescriptorOf(location, d, e) ==
  /\ d.root_path = EntryPath(location, e)
  /\ d.is_sensitive = e.sensitive
  /\ d.encryption_mode = e.encryption_mode

\* the configured entries of the source whose directory exists, in order
ExistingEntries ==
  SelectSeq(src.dirs, LAMBDA e : exists(EntryPath(src, e)))

\* C20: preprocessing the source succeeds whenever its entries are well
\* formed, whether or not their directories exist, and yields the descriptors
\* of exactly the existing directories in configured order; preprocessing
\* the destination yields one descriptor per configured directory, existing
\* or not.
MissingSourceSkipped ==
  [][/\ pc = "preprocess_src" =>
          /\ (pc' = "preprocess_dst")
               <=> (\A i \in 1..Len(src.dirs) : WellFormed(src.dirs[i]))
          /\ pc' = "preprocess_dst" =>
               /\ Len(src'.processed_dirs) = Len(ExistingEntries)
               /\ \A k \in 1..Len(ExistingEntries) :
                    DescriptorOf(src, src'.processed_dirs[k], ExistingEntries[k])
     /\ pc = "preprocess_dst" =>
          /\ (pc' = "match")
               <=> (\A i \in 1..Len(dst.dirs) : WellFormed(dst.dirs[i]))
          /\ pc' = "match" =>
               /\ Len(dst'.processed_dirs) = Len(dst.dirs)
               /\ \A k \in 1..Len(dst.dirs) :
                    DescriptorOf(dst, dst'.processed_dirs[k], dst.dirs[k])]_vars

\* a missing source directory was skipped and the one after it kept, and a
\* missing destination directory has its descriptor
MissingSourceSkippedWitness ==
  /\ pc = "match"
  /\ Len(src.dirs) = 2 /\ src.dirs[1].path = <<"gone">>
  /\ Len(src.processed_dirs) = 1
  /\ \E k \in 1..Len(dst.dirs) : dst.dirs[k].path = <<"gone">>
  /\ Len(dst.processed_dirs) = Len(dst.dirs)

\* ----------------------------------------------------------------- executor
\* the jobs were selected and the executor was entered
Executing == pc = "execute" \/ (pc = "done" /\ selection # NoSelection)

\* the positions in the log of the calls of a stage that failed
FailedCalls(stage) ==
  {i \in 1..Len(log) : log[i].stage = stage /\ ~log[i].ok}

\* the call at position i is the last one made for its job
LastOfJob(i) == i = Len(log) \/ log[i + 1].job # log[i].job

\* C12: the calls of the executor come job after job, and for each job in
\* the order ensure-destination, encrypt-source (only for a job that
\* encrypts), transfer, decrypt-at-destination: every call but the first of
\* a job directly follows the call of the job's previous stage, and the
\* first call of job k+1 follows the last call of job k.
StageOrder ==
  \A i \in 1..Len(log) :
    LET e == log[i]
    IN  /\ e.job \in 1..job_idx
        /\ e.job <= Len(sync_jobs)
        /\ IF i = 1 THEN e.job = 1 /\ e.stage = "create_dir"
           ELSE LET prev == log[i - 1]
                IN  CASE e.stage = "create_dir" -> prev.job = e.job - 1
                      [] e.stage = "encrypt" ->
                           /\ prev.job = e.job /\ prev.stage = "create_dir"
                           /\ sync_jobs[e.job].encrypt
                      [] e.stage = "transfer" ->
                           /\ prev.job = e.job
                           /\ prev.stage = IF sync_jobs[e.job].encrypt
                                           THEN "encrypt" ELSE "create_dir"
                      [] e.stage = "decrypt" ->
                           prev.job = e.job /\ prev.stage = "transfer"
                      [] OTHER -> FALSE

\* the first of two jobs went through all four stages before the second began
StageOrderWitness ==
  /\ pc = "done" /\ Len(sync_jobs) = 2
  /\ Len(log) > 4
  /\ log[2].stage = "encrypt" /\ log[4].stage = "decrypt" /\ log[4].job = 1
  /\ log[5].job = 2

\* C13: a job whose destination cannot be created is aborted, one error is
\* counted for it, and the jobs after it are still gone through.
CreateDirFailureCounted ==
  \A i \in FailedCalls("create_dir") :
    /\ LastOfJob(i)
    /\ num_errors >= Cardinality(FailedCalls("create_dir"))
    /\ pc = "done" => job_idx = Len(sync_jobs)

\* the part of C13 the executor keeps: the job is aborted and the others
\* are still gone through
CreateDirFailureAborts ==
  \A i \in FailedCalls("create_dir") :
    /\ LastOfJob(i)
    /\ pc = "done" => job_idx = Len(sync_jobs)

\* C14: a failure of the encryption of a job, in either mode, counts one
\* error and ends the job: neither transfer nor decryption is called for it.
EncryptionFailureCounted ==
  \A i \in FailedCalls("encrypt") :
    /\ LastOfJob(i)
    /\ num_errors >= Cardinality(FailedCalls("encrypt"))

\* the part of C14 the executor keeps: in whole-directory mode, and when the
\* source is no directory, the failure counts and ends the job
ArchiveEncryptionFailureCounted ==
  \A i \in FailedCalls("encrypt") :
    (sync_jobs[log[i].job].encryption_mode = DIRECTORY
       \/ encrypt_srcdir(sync_jobs[log[i].job], "ok") = None)
      => LastOfJob(i) /\ num_errors >= 1

\* C15: the executor reports success exactly when no call of any stage of
\* any job has failed.
SuccessIffNoFailure ==
  (pc = "done" /\ selection # NoSelection)
    => (result = <<TRUE>>
          <=> \A i \in 1..Len(log) : log[i].ok)

\* the executor has called create_dir for job number k
Attempted(k) ==
  \E i \in 1..Len(log) : log[i].job = k /\ log[i].stage = "create_dir"

\* C16: once the executor is entered, whatever calls fail, it eventually
\* returns, and by then it has attempted every job of its list.
EveryJobAttempted ==
  (pc = "execute")
    ~> (pc = "done" /\ \A k \in 1..Len(sync_jobs) : Attempted(k))

\* the executor has returned after a first job whose destination could not
\* be created and a second job that it attempted nevertheless
EveryJobAttemptedWitness ==
  /\ pc = "done" /\ Len(sync_jobs) = 2
  /\ Len(log) > 1 /\ ~log[1].ok /\ log[2].job = 2
  /\ Attempted(2)

\* the string ends with one separator and no more
EndsWithOneSep(s) ==
  EndsWithSep(s) /\ ~EndsWithSep(SubSeq(s, 1, Len(s) - 1))

\* the destination path of every transfer ends with exactly one separator
DestinationSlash ==
  \A i \in 1..Len(log) :
    log[i].stage = "transfer" => EndsWithOneSep(log[i].dst)

\* C17: in every transfer the destination path ends with exactly one
\* separator; the source path ends with a separator when the job does not
\* encrypt or encrypts in per-file mode, and with none when the job encrypts
\* into a single archive. A source that is ciphertext already is read as a
\* single encrypted archive file, so nothing is asked of it.
TrailingSlashes ==
  \A i \in 1..Len(log) :
    log[i].stage = "transfer" =>
      LET job == sync_jobs[log[i].job]
      IN  /\ EndsWithOneSep(log[i].dst)
          /\ (/\ ~job.encrypt \/ job.encryption_mode = FILE
              /\ ~has_suffix(job.src, CIPHERTEXT_ENDING))
               => EndsWithSep(log[i].src)
          /\ (job.encrypt /\ job.encryption_mode = DIRECTORY)
               => ~EndsWithSep(log[i].src)

\* what the code does: the separator is appended only to a source path whose
\* last component has no suffix
TrailingSlashesOfSuffixless ==
  \A i \in 1..Len(log) :
    log[i].stage = "transfer" =>
      LET job == sync_jobs[log[i].job]
          enc == job.encrypt /\ job.encryption_mode = DIRECTORY
          src_path == IF job.encrypt
                      THEN PathOf(TmpDir) \o Tail(job.src.abs_path)
                      ELSE job.src.abs_path
      IN  EndsWithSep(log[i].src) <=> (~enc /\ PathSuffix(src_path) = "")

\* preprocessing of a location has raised: a configuration error ended the
\* run, or a location with an absolute directory path has been preprocessed
PreprocessingRaised ==
  \/ pc = "raised"
  \/ HasAbsolute(src) /\ pc # "preprocess_src"
  \/ HasAbsolute(dst) /\ pc \notin {"preprocess_src", "preprocess_dst"}

\* automatic matching has been done on lists that are not aligned
MatchingFailed ==
  /\ pc \notin {"preprocess_src", "preprocess_dst", "match"}
  /\ ~args.manual_matching
  /\ ~IndexAligned

\* C18: once preprocessing has raised or automatic matching has failed, the
\* run is over: no job was selected, no external call (create_dir, encrypt,
\* transfer, decrypt) was made or will be, and the result is not success.
FatalBeforeExecution ==
  (PreprocessingRaised \/ MatchingFailed)
    => /\ pc \in {"raised", "done"}
       /\ sync_jobs = <<>> /\ selection = NoSelection
       /\ job_idx = 0 /\ log = <<>>
       /\ result # <<TRUE>>

\* automatic matching failed on a source the destination list has no
\* descriptor for, and the run ended reporting failure without any call
FatalBeforeExecutionWitness ==
  /\ pc = "done" /\ result = <<FALSE>> /\ log = <<>>
  /\ ~args.manual_matching
  /\ Len(src.processed_dirs) > Len(dst.processed_dirs)

\* ------------------------------------------------------------ command line
\* the command line names two different configured-or-not locations without
\* a path part, gives a configuration file and no --dry
PlainCommandLine ==
  /\ ~Contains(argv.src, COLON) /\ ~Contains(argv.dst, COLON)
  /\ argv.src # argv.dst
  /\ argv.config # None
  /\ ~argv.dry

\* what get_sync_arguments returns for a plain command line, but for
\* remove_remote_files
PlainArguments(a) ==
  /\ a.src_location = argv.src /\ a.dst_location = argv.dst
  /\ a.src_path = None /\ a.dst_path = None
  /\ a.config_file = argv.config
  /\ a.dry_run = FALSE

\* C21: for a command line that gives --src and --dst as plain location
\* names and no --dry, get_sync_arguments returns those names, null paths,
\* the given configuration file, dry_run = False and
\* remove_remote_files = True.
MinimalArguments ==
  [][(pc = "get_sync_arguments" /\ PlainCommandLine)
       => /\ pc' = "check_pick_mode"
          /\ PlainArguments(args')
          /\ args'.remove_remote_files = TRUE]_vars

\* what the code returns there: the same, with remove_remote_files = False
MinimalArgumentsKeepFiles ==
  [][(pc = "get_sync_arguments" /\ PlainCommandLine)
       => /\ pc' = "check_pick_mode"
          /\ PlainArguments(args')
          /\ args'.remove_remote_files = FALSE]_vars

\* check_pick_mode is called with only a destination path picked
DestinationPicked ==
  /\ pc = "check_pick_mode"
  /\ args.src_location \in ConfiguredLocations
  /\ args.dst_location \in ConfiguredLocations
  /\ args.src_path = None /\ args.dst_path # None

\* C30: with only a destination path picked and --encrypt not given,
\* check_pick_mode completes without error; the destination's "dirs" is then
\* the single picked path, and the source's "dirs" and trust flag are as
\* before.
PickDestinationOnly ==
  [][(DestinationPicked /\ ~args.encrypt_src /\ pc' # "done")
       => /\ pc' = "preprocess_src" /\ error' = NoError
          /\ dst'.dirs = <<PickedDir(args.dst_path, FALSE)>>
          /\ src'.dirs = src.dirs /\ src'.trusted = src.trusted]_vars

\* with --encrypt given the call does complete: the picked path is the
\* destination's only directory, sensitive, and the destination is untrusted
PickDestinationEncrypted ==
  [][(DestinationPicked /\ args.encrypt_src /\ pc' # "done")
       => /\ pc' = "preprocess_src" /\ error' = NoError
          /\ dst'.dirs = <<PickedDir(args.dst_path, TRUE)>>
          /\ ~dst'.trusted
          /\ src'.dirs = src.dirs /\ src'.trusted = src.trusted]_vars

\* ------------------------------------------------- decryption at destination
\* the positions in the log at which decrypt_dir has been called: the scans
\* of a destination that found a ciphertext
DecryptCalls ==
  {i \in 1..Len(log) : log[i].stage = "decrypt" /\ log[i].found > 0}

\* C22: decrypt_dir is called during a job only if the job's decrypt flag is
\* set; the ciphertext an encrypting job has just transferred is never
\* decrypted at its destination.
DecryptOnlyIfFlagged ==
  \A i \in DecryptCalls : sync_jobs[log[i].job].decrypt

\* ---------------------------------------------------------- pairing by index
\* C23: with automatic matching every primary job pairs the directory
\* configured at some position of the source location with the directory
\* configured at the same position of the destination location, also when
\* an earlier configured source directory does not exist.
PositionalPairing ==
  (Planned /\ ~args.manual_matching /\ PlanHasExpectedLength) =>
    \A i \in 1..NPairs :
      \E c \in 1..Min(Len(src.dirs), Len(dst.dirs)) :
        /\ PrimaryJob(i).src = EntryPath(src, src.dirs[c])
        /\ PrimaryJob(i).dst = EntryPath(dst, dst.dirs[c])

\* what the code pairs: the i-th existing source directory with the
\* directory configured at position i of the destination
PairingOfExisting ==
  (Planned /\ ~args.manual_matching /\ PlanHasExpectedLength) =>
    \A i \in 1..NPairs :
      /\ PrimaryJob(i).src = EntryPath(src, ExistingEntries[i])
      /\ PrimaryJob(i).dst = EntryPath(dst, dst.dirs[i])

\* ------------------------------------------------------ excluded sub-paths
\* C24: no registered exclude sub-path of a matched source directory is
\* covered by a job of that pair, primary or split, also when it lies
\* beneath a registered sensitive sub-path.
ExcludesNeverCovered ==
  Planned =>
    /\ PlanHasExpectedLength
    /\ \A i \in 1..NPairs : \A x \in 1..Len(SrcDir(i).exclude_folders) :
         \A job \in JobsOfPair(i) :
           ~Covers(job, SrcDir(i).exclude_folders[x].abs_path)

\* the part the planner keeps: the primary job covers no exclude sub-path
ExcludesNotInPrimary ==
  Planned =>
    /\ PlanHasExpectedLength
    /\ \A i \in 1..NPairs : \A x \in 1..Len(SrcDir(i).exclude_folders) :
         ~Covers(PrimaryJob(i), SrcDir(i).exclude_folders[x].abs_path)

\* ------------------------------------------------- registered sub-path lists
\* the configured sub-path strings that are not empty entries
NonNone(subdirs) == SelectSeq(subdirs, LAMBDA x : x # None)

SourcePreprocessed == pc # "preprocess_src"

ButLast(s) == SubSeq(s, 1, Len(s) - 1)

\* the string is s followed by separators only
RECURSIVE SepsAfter(_, _)
SepsAfter(s, string) ==
  \/ string = s
  \/ Len(string) > Len(s) /\ EndsWithSep(string) /\ SepsAfter(s, ButLast(string))

\* C27: a configured directory path that ends with a separator is accepted,
\* and the descriptor's path is the configured one without exactly one
\* trailing separator, however many it ends with.
SingleSeparatorStripped ==
  /\ SourcePreprocessed =>
       \A i \in 1..Len(src.processed_dirs) :
         EndsWithSep(ExistingEntries[i].path) =>
           SrcDir(i).root_path.pth_root = ButLast(ExistingEntries[i].path)
  /\ \A i \in 1..Len(dst.processed_dirs) :
       EndsWithSep(dst.dirs[i].path) =>
         DstDir(i).root_path.pth_root = ButLast(dst.dirs[i].path)

\* what the code does: the descriptor's path is the configured one without
\* any of its trailing separators
EverySeparatorStripped ==
  /\ SourcePreprocessed =>
       \A i \in 1..Len(src.processed_dirs) :
         /\ ~EndsWithSep(SrcDir(i).root_path.pth_root)
         /\ SepsAfter(SrcDir(i).root_path.pth_root, ExistingEntries[i].path)
  /\ \A i \in 1..Len(dst.processed_dirs) :
       /\ ~EndsWithSep(DstDir(i).root_path.pth_root)
       /\ SepsAfter(DstDir(i).root_path.pth_root, dst.dirs[i].path)

\* ------------------------------------------------ fully sensitive directories
\* some configured entry of the source is the one of descriptor d and lists
\* the exclude folders that d has registered
ExcludesRegistered(d) ==
  \E c \in 1..Len(src.dirs) :
    /\ DescriptorOf(src, d, src.dirs[c])
    /\ SubPths(d.exclude_folders) = NonNone(src.dirs[c].exclude_folders)

\* C26: a source descriptor marked fully sensitive has no registered
\* sensitive sub-path, whatever sensitive_folders its entry lists, and has
\* its configured exclude folders registered; in a plan its pair has the
\* primary job and no split job.
FullySensitiveUnsplit ==
  /\ \A i \in 1..Len(src.processed_dirs) :
       SrcDir(i).is_sensitive =>
         /\ SrcDir(i).sensitive_folders = <<>>
         /\ ExcludesRegistered(SrcDir(i))
  /\ Planned =>
       /\ PlanHasExpectedLength
       /\ \A i \in 1..NPairs :
            SrcDir(i).is_sensitive =>
              /\ PrimaryJob(i).src = SrcDir(i).root_path
              /\ IF i < NPairs
                 THEN sync_jobs[JobsBefore(i) + 2].src = SrcDir(i + 1).root_path
                 ELSE Len(sync_jobs) = JobsBefore(i) + 1

\* a plan for an untrusted destination whose only source directory is fully
\* sensitive and lists a sensitive folder: one job
FullySensitiveUnsplitWitness ==
  /\ pc = "select" /\ ~dst.trusted
  /\ Len(src.processed_dirs) = 1 /\ SrcDir(1).is_sensitive
  /\ \E c \in 1..Len(src.dirs) :
       /\ DescriptorOf(src, SrcDir(1), src.dirs[c])
       /\ NonNone(src.dirs[c].sensitive_folders) # <<>>
  /\ Len(sync_jobs) = 1

\* ----------------------------------------------------- selection and executor
\* the numbers of the planned jobs the operator's answer names
NamedJobs(n) ==
  LET input == selection.input
  IN  CASE input.kind = "all" -> 1..n
        [] input.kind = "single" -> {input.indices[1]}
        [] input.kind = "range" -> input.indices[1]..input.indices[2]
        [] input.kind = "list" -> {input.indices[k] : k \in 1..Len(input.indices)}
        [] OTHER -> {}

\* the create_dir calls the executor has made for the job at position k
Attempts(k) ==
  {i \in 1..Len(log) : log[i].job = k /\ log[i].stage = "create_dir"}

\* C28: every job the executor runs is a job of the plan; the jobs it is
\* given are the jobs the operator named, each once, however often a number
\* was named, and none when the operator quit or declined; the executor
\* goes through each of them exactly once and calls nothing for other jobs.
SelectedJobsOnce ==
  Executing =>
    LET planned == build_sync_jobs(src, dst).jobs
        named == NamedJobs(Len(planned))
    IN  /\ \A k \in 1..Len(sync_jobs) :
             \E j \in 1..Len(planned) : sync_jobs[k] = planned[j]
        /\ IF selection.input.kind = "q" \/ ~selection.confirmed
           THEN sync_jobs = <<>> /\ log = <<>>
           ELSE /\ Len(sync_jobs) = Cardinality(named)
                /\ \A j \in named :
                     \E k \in 1..Len(sync_jobs) : sync_jobs[k] = planned[j]
        /\ \A i \in 1..Len(log) : log[i].job \in 1..job_idx
        /\ \A k \in 1..Len(sync_jobs) :
             Cardinality(Attempts(k)) = (IF k <= job_idx THEN 1 ELSE 0)
        /\ pc = "done" => job_idx = Len(sync_jobs)

\* the operator named the same job twice in a list and confirmed: the
\* executor has run that job, once, and returned
SelectedJobsOnceWitness ==
  /\ pc = "done"
  /\ selection.input.kind = "list" /\ selection.confirmed
  /\ selection.input.indices[1] = selection.input.indices[2]
  /\ Len(sync_jobs) = 1 /\ Cardinality(Attempts(1)) = 1

\* The ciphertexts in the temporary directory, and the outcome of a run of
\* encrypt_srcdir as its calls tell it.
CiphertextPaths(storage) == {p \in DOMAIN storage : storage[p][1].tool = "gpg"}
RunSucceeded(run) == \A i \in 1..Len(log) : log[i].run = run => log[i].ok
SingleEncryption ==
  encrypt_srcdir_storage(EmptyStorage, sync_jobs[1], src_files, TRUE, TRUE, "ok",
                         [f \in src_files |-> "ok"], 1)

\* C29: encrypting the same unchanged source again is idempotent on the
\* temporary storage: no file there ever holds more than the output of one
\* call, no ciphertext lies at a path a single successful encryption would
\* not write, and after a run in which every call succeeded, whatever the
\* runs before it did, the ciphertext paths are those of a single successful
\* encryption and each holds the whole output of that last run.
EncryptionIdempotent ==
  pc = "encrypt" =>
    LET once == CiphertextPaths(SingleEncryption)
    IN  /\ \A p \in DOMAIN tmp_files : Len(tmp_files[p]) = 1
        /\ CiphertextPaths(tmp_files) \subseteq once
        /\ (enc_runs > 0 /\ RunSucceeded(enc_runs)) =>
             /\ CiphertextPaths(tmp_files) = once
             /\ \A p \in once : /\ tmp_files[p][1].run = enc_runs
                                /\ tmp_files[p][1].complete

\* a partially failed first run that wrote a ciphertext, and a second run
\* that succeeded and wrote to the same path
EncryptionIdempotentWitness ==
  /\ pc = "encrypt"
  /\ enc_runs = 2
  /\ ~RunSucceeded(1)
  /\ RunSucceeded(2)
  /\ \E i, j \in 1..Len(log) :
       /\ log[i].run = 1 /\ log[i].tool = "gpg" /\ log[i].ok
       /\ log[j].run = 2 /\ log[j].tool = "gpg" /\ log[j].output = log[i].output

====
